---------------------------- MODULE Spec2Model ----------------------------
(***************************************************************************)
(* Model of the zrythm audio engine core: the engine cycle and its event   *)
(* queue (inc/dsp/engine.h), the channel strip wiring                       *)
(* (src/gui/backend/channel.cpp) and the fader (src/gui/dsp/fader.cpp).    *)
(*                                                                         *)
(* engine.cpp, router.cpp and dsp.cpp are not part of the source tree; the  *)
(* bodies of AudioEngine::process, process_prepare, process_events,         *)
(* clean_duplicate_events_and_copy and of the dsp_linear_fade_* functions   *)
(* are modelled from spec.md (sections 4.6, 4.9, 4.10, 5, 8), their         *)
(* signatures, fields and initial values from engine.h / dsp.h.             *)
(***************************************************************************)
EXTENDS Integers, Sequences, FiniteSets, Bags, TLC

(***************************************************************************)
(* Program constants.                                                      *)
(***************************************************************************)
\* constexpr int ENGINE_MAX_EVENTS = 128 (capacity of ev_queue_ and ev_pool_)
ENGINE_MAX_EVENTS == 128
\* std::array<Event *, 100> &ret of clean_duplicate_events_and_copy
EVENTS_ARRAY_SIZE == 100
\* a semaphore that lets two parties in
PortOperationLockInitTwo == 1 + 1

\* std::counting_semaphore<> port_operation_lock_{ 1 }
PortOperationLockInit == 1

\* #define STRIP_SIZE 9 (slots of midi_fx_ and of inserts_)
STRIP_SIZE == 9

(***************************************************************************)
(* Bounds of the model.                                                    *)
(***************************************************************************)
\* largest block length (nframes) the backend asks for under SpecEngine
MaxFrames == 2
\* largest timeline position (frames) the transport is started from
MaxPos == 3
\* number of engine events queued at a time under SpecEngine
MaxPushes == 2
\* largest note handed to the piano roll under SpecPianoRoll
MaxNote == 127
\* largest position, track, lane, pitch, chord index and automation value
\* of an object under SpecMove, and the largest delta of a move
MaxMoveVal == 2
MaxMoveDelta == 1
\* do, undo and redo runs of a move action that are counted
MaxMoveRuns == 4
\* number of automation tracks of the tracklist under SpecAtl
NumAutomationTracks == 3
\* under SpecEvents only the first MaxRepeatPos pushes may repeat an event
MaxRepeatPos == 3
\* largest block length under SpecCycle
MaxCycleFrames == 4

\* number of plugin instances of the registry under SpecChannel
MaxPlugins == 3
\* largest slot index plugins are added at under SpecChannel
MaxSlotIndex == 1

\* the fade lengths of fader.h, scaled down: the monitor fader's and the
\* shorter one of every other fader
FADER_DEFAULT_FADE_FRAMES == 4
FADER_DEFAULT_FADE_FRAMES_SHORT == 2
\* largest block length a fader processes under SpecFader
MaxFaderFrames == 3
\* amplitude 1.0 in steps of the model
AmpDen == 2
\* largest mute level, in steps of 1 / AmpDen
MaxMuteAmp == 3
\* largest magnitude of an input sample (full scale is 1)
MaxSample == 3
\* number of tracks of the tracklist, the master track included
MaxTracks == 4
\* number of ports that port connection actions name
MaxPorts == 2
\* largest multiplier (in whole units) a ChangeMultiplier action sets
MaxMultiplier == 2
\* regions of the automation track, automation points of the track
MaxRegions == 2
MaxAps == 2
\* largest start position and largest length of an automation region (frames)
MaxRegionPos == 1
MaxRegionLen == 2
\* normalized values of automation points are k / MaxApVal, k in 0 .. MaxApVal
MaxApVal == 1
\* the touch window of automation recording, scaled down, and the last
\* reading of the real-time clock; both in the clock's unit
AUTOMATION_RECORDING_TOUCH_REL_MS == 2
MaxTime == 5
\* largest frame of the positions of the edited region
MaxRegionFrames == 3
\* notes of the MIDI region, their pitches, and the frames of the region
MaxNotes == 2
MaxPitch == 2
MaxMidiFrames == 3

Min(a, b) == IF a < b THEN a ELSE b
Max(a, b) == IF a > b THEN a ELSE b

BlockLengths == 1 .. MaxFrames
SampleRates == {1}
AudioPorts == {"master_l", "master_r", "monitor_l", "monitor_r"}

\* AudioEngine::Event, reduced to the fields that identify it
BufferSizeChangeEvent(n) == [type |-> "BufferSizeChange", uint_arg |-> n]
SampleRateChangeEvent(r) == [type |-> "SampleRateChange", uint_arg |-> r]

VARIABLES
  \* ---- AudioEngine fields (engine.h)
  port_operation_lock,   \* count of the semaphore port_operation_lock_
  run,                   \* run_
  ev_queue,              \* ev_queue_ (FIFO of events)
  pool_in_use,           \* objects of ev_pool_ handed out and not released
  processing_events,     \* processing_events_
  cycle_running,         \* cycle_running_
  handled_jack_buffer_size_change,
  port_buf_len,          \* buffer length of every audio port
  sample_rate,           \* sample_rate_
  remaining_latency_preroll,
  \* ---- transport
  playhead, is_rolling, looping, loop_start, loop_end,
  \* ---- the audio thread inside process()
  audio_pc,              \* "idle" | "prepare" | "loop"
  nframes,               \* total_frames_to_process of the current call
  acquired,              \* whether the SemaphoreRAII of this call holds the lock
  remaining, offset,     \* loop variables of process()
  \* ---- the control thread (graph mutators and the event pump run on it)
  ctrl_pc,               \* "idle" | "rewiring"
  pump_pc,               \* "idle" | "wait_lock" | "handling"
  events,                \* the array filled by clean_duplicate_events_and_copy
  \* ---- the backend driver
  backend_nframes,       \* block length the backend currently calls process with
  n_pushed,              \* number of pushes since the last pump run
  \* ---- observations of the last process() call and the last pump run
  obs,                   \* what process_prepare saw when it decided
  splits,                \* <<offset, length>> of every sub-block of the call
  nodes_processed,       \* number of router.kick rounds of the call
  playhead_at_start,     \* playhead when the call began
  out_buf,               \* "none" | "silence" | "filled": output of the call
  out_frames,            \* frames written to the backend by the call
  expected_len,          \* latest BufferSizeChange drained before the call began
  last_drained_bsc,      \* uint_arg of the latest BufferSizeChange drained (0: none)
  drained_batch,         \* queue content popped by the last pump run
  handled,               \* events handled by the last pump run, in order
  \* ---- Channel fields (channel.cpp) and the connections of the strip
  midi_fx,               \* midi_fx_: slot index -> plugin id (NoPlugin: empty)
  instrument,            \* instrument_
  inserts,               \* inserts_
  conns,                 \* connections <<source, destination>> between strip nodes
  placed,                \* plugins that were passed to add_plugin
  strip_op,              \* the last add_plugin / remove_plugin call
  \* ---- Fader fields (fader.cpp) and the control room's mute level
  f_kind,                \* type_, passthrough_ and the fader's track
  f_in,                  \* mute and solo ports, solo state of the tracks, bounce
  mute_amp,              \* CONTROL_ROOM->mute_fader_->get_amp (), in 1 / AmpDen
  fade_in_samples,       \* fade_in_samples_
  fade_out_samples,      \* fade_out_samples_
  fading_out,            \* fading_out_
  was_effectively_muted, \* was_effectively_muted_
  f_sig,                 \* input samples, amp, balance, mono, phase, midi_mode_
  last_cc_volume,        \* last_cc_volume_, in 1 / AmpDen
  blk,                   \* observation of the last process_block call
  \* ---- the tracklist
  tracks,                \* track -> output track, group target, solo port
  \* ---- the port connections of the project
  port_conns,            \* bag of PortConnection records
  conn_obs,              \* the last PortConnectionAction performed
  \* ---- one automation track
  at_regions,            \* region_list_->regions_: sequence of regions
  at_port_val,           \* normalized control value of the automated port
  at_obs,                \* the last get_val_at_pos call and its result
  automation_mode_,      \* AutomationMode of the track
  record_mode_,          \* AutomationRecordMode of the track
  recording_started_,    \* whether automation recording has started
  last_change_time_,     \* time of the last touch of the automated port
  rt_now,                \* the real-time clock
  rec_obs,               \* the last should_be_recording call and its result
  \* ---- one region of the timeline
  region,                \* its type and positions, in frames
  region_obs,            \* the last call on the region and its result
  \* ---- one MIDI region
  midi_notes_,           \* its notes: sequence of (val, pos, end_pos), local
  midi_obs,              \* the last fill_midi_events call and its events
  \* ---- the denormal prevention of the engine
  denormal_prevention_val_positive_,
  denormal_prevention_val_,     \* in units of 1e-12
  \* ---- the automation tracks of one automation tracklist
  ats_automation_mode_,  \* automation track -> its automation_mode_
  ats_in_record_mode_,   \* AutomationTracklist::ats_in_record_mode_
  \* ---- the piano roll
  current_notes_,        \* PianoRoll::current_notes_: sequence of notes
  piano_roll_obs,        \* the last call on the piano roll and its result
  \* ---- the callbacks of one ProjectInitFlowManager
  callbacks_,            \* ProjectInitFlowManager::callbacks_: stack of callbacks
  appended_callbacks,    \* every callback appended, in order
  cb_calls,              \* the callbacks invoked, in order, with success
  init_in,               \* filename_, is_template_ and the project's files
  init_todo,             \* the steps the constructor has still to make
  \* ---- the arranger objects of one move action
  arr_objs,              \* the selected objects as they are in the project
  move_action,           \* the ArrangerSelectionsAction: its deltas, sel and first_run
  move_obs,              \* the objects before the move and at the creation of the action
  \* ---- the project create / load flow (project_init_flow_manager.cpp)
  flow_steps,            \* the engine calls the running flow has still to make
  pre_setup_,            \* AudioEngine::pre_setup_
  setup_,                \* AudioEngine::setup_
  graph_recalculated     \* the router has a graph made for the project

engineVars ==
  << port_operation_lock, run, ev_queue, pool_in_use, processing_events,
     cycle_running, handled_jack_buffer_size_change, port_buf_len, sample_rate,
     remaining_latency_preroll, playhead, is_rolling, looping, loop_start,
     loop_end, audio_pc, nframes, acquired, remaining, offset, ctrl_pc,
     pump_pc, events, backend_nframes, n_pushed, obs, splits,
     nodes_processed, playhead_at_start, out_buf, out_frames, expected_len,
     last_drained_bsc, drained_batch, handled >>

channelVars == << midi_fx, instrument, inserts, conns, placed, strip_op >>

faderVars ==
  << f_kind, f_in, mute_amp, fade_in_samples, fade_out_samples, fading_out,
     was_effectively_muted, f_sig, last_cc_volume, blk >>

tracklistVars == << tracks >>

connectionVars == << port_conns, conn_obs >>

recordingVars ==
  << automation_mode_, record_mode_, recording_started_, last_change_time_,
     rt_now, rec_obs >>

automationVars == << at_regions, at_port_val, at_obs, recordingVars >>

regionVars == << region, region_obs >>

midiVars == << midi_notes_, midi_obs >>

denormalVars ==
  << denormal_prevention_val_positive_, denormal_prevention_val_ >>

projectVars ==
  << tracklistVars, connectionVars, automationVars, regionVars, midiVars >>

atlVars == << ats_automation_mode_, ats_in_record_mode_ >>

pianoRollVars == << current_notes_, piano_roll_obs >>

initFlowVars == << callbacks_, appended_callbacks, cb_calls, init_in, init_todo >>

moveVars == << arr_objs, move_action, move_obs >>

flowVars == << flow_steps, pre_setup_, setup_, graph_recalculated >>

otherVars == << projectVars, denormalVars,
     atlVars,
     pianoRollVars,
     initFlowVars,
     moveVars, flowVars >>

vars == << engineVars, channelVars, faderVars, otherVars >>

\* what the operations of the engine, of the channel and of the fader leave
\* alone
nonEngineVars == << channelVars, faderVars, otherVars >>
nonChannelVars == << engineVars, faderVars, otherVars >>
nonFaderVars == << engineVars, channelVars, otherVars >>
nonTracklistVars ==
  << engineVars, channelVars, faderVars, connectionVars, automationVars,
     regionVars, midiVars, denormalVars,
     atlVars,
     pianoRollVars,
     initFlowVars,
     moveVars, flowVars >>
nonConnectionVars ==
  << engineVars, channelVars, faderVars, tracklistVars, automationVars,
     regionVars, midiVars, denormalVars,
     atlVars,
     pianoRollVars,
     initFlowVars,
     moveVars, flowVars >>
nonAutomationVars ==
  << engineVars, channelVars, faderVars, tracklistVars, connectionVars,
     regionVars, midiVars, denormalVars,
     atlVars,
     pianoRollVars,
     initFlowVars,
     moveVars, flowVars >>
nonRegionVars ==
  << engineVars, channelVars, faderVars, tracklistVars, connectionVars,
     automationVars, midiVars, denormalVars,
     atlVars,
     pianoRollVars,
     initFlowVars,
     moveVars, flowVars >>
nonMidiVars ==
  << engineVars, channelVars, faderVars, tracklistVars, connectionVars,
     automationVars, regionVars, denormalVars,
     atlVars,
     pianoRollVars,
     initFlowVars,
     moveVars, flowVars >>
\* what a cycle of the engine leaves alone besides the engine's own fields
nonCycleVars ==
  << channelVars, faderVars, projectVars, moveVars,
     initFlowVars,
     pianoRollVars,
     atlVars,
     flowVars >>
\* what a project flow leaves alone besides the engine's fields
nonFlowVars ==
  << channelVars, faderVars, projectVars, moveVars,
     initFlowVars,
     pianoRollVars,
     atlVars,
     denormalVars >>

audioVars ==
  << audio_pc, nframes, acquired, remaining, offset, obs, splits,
     nodes_processed, playhead_at_start, out_buf, out_frames, expected_len,
     cycle_running >>
transportVars == << playhead, is_rolling, looping, loop_start, loop_end >>
pumpVars ==
  << pump_pc, events, last_drained_bsc >>

NoObs == [decided |-> FALSE, acquired |-> FALSE, run |-> FALSE,
          queue_empty |-> FALSE, processing_events |-> FALSE]

(***************************************************************************)
(* Initial state: the engine as constructed (engine.h member initialisers) *)
(* and set up by the backend with one block length; the transport holds a  *)
(* valid loop range (0 <= loop_start < loop_end).                          *)
(***************************************************************************)
EngineInit ==
  /\ port_operation_lock = PortOperationLockInit
  /\ run = FALSE
  /\ ev_queue = << >>
  /\ pool_in_use = 0
  /\ processing_events = FALSE
  /\ cycle_running = FALSE
  /\ handled_jack_buffer_size_change = FALSE
  /\ backend_nframes \in 1 .. MaxCycleFrames
  /\ port_buf_len = [p \in AudioPorts |-> backend_nframes]
  /\ sample_rate = 1
  /\ remaining_latency_preroll \in 0 .. 1
  /\ playhead \in 0 .. 1
  /\ is_rolling \in BOOLEAN
  /\ looping \in BOOLEAN
  /\ loop_start \in 0 .. 1
  /\ loop_end \in (loop_start + 1) .. 2
  /\ audio_pc = "idle"
  /\ nframes = 0
  /\ acquired = FALSE
  /\ remaining = 0
  /\ offset = 0
  /\ ctrl_pc = "idle"
  /\ pump_pc = "idle"
  /\ events = << >>
  /\ n_pushed = 0
  /\ obs = NoObs
  /\ splits = << >>
  /\ nodes_processed = 0
  /\ playhead_at_start = playhead
  /\ out_buf = "none"
  /\ out_frames = 0
  /\ expected_len = 0
  /\ last_drained_bsc = 0
  /\ drained_batch = << >>
  /\ handled = << >>


(***************************************************************************)
(* The event queue: ENGINE_EVENTS_PUSH (engine.h:93-111) takes an Event    *)
(* from ev_pool_, fills it in and appends it to ev_queue_.  The            *)
(* observations of the last pump run are kept until new events arrive.     *)
(***************************************************************************)

ENGINE_EVENTS_PUSH(ev) ==
  /\ pool_in_use' = pool_in_use + 1
  /\ ev_queue' = Append(ev_queue, ev)
  /\ drained_batch' = << >>
  /\ handled' = << >>

\* The JACK buffer size callback: a change starts (handled flag cleared), the
\* event is queued, and the backend calls process() with the new length from
\* now on.
PushBufferSizeChange(n) ==
  /\ UNCHANGED nonEngineVars
  /\ ENGINE_EVENTS_PUSH(BufferSizeChangeEvent(n))
  /\ handled_jack_buffer_size_change' = FALSE
  /\ backend_nframes' = n
  /\ n_pushed' = n_pushed + 1
  /\ UNCHANGED << port_operation_lock, run, processing_events, port_buf_len,
                  sample_rate, remaining_latency_preroll, ctrl_pc >>
  /\ UNCHANGED << audioVars, transportVars, pumpVars >>

PushSampleRateChange(r) ==
  /\ UNCHANGED nonEngineVars
  /\ ENGINE_EVENTS_PUSH(SampleRateChangeEvent(r))
  /\ n_pushed' = n_pushed + 1
  /\ UNCHANGED << port_operation_lock, run, processing_events, port_buf_len,
                  sample_rate, remaining_latency_preroll, ctrl_pc,
                  handled_jack_buffer_size_change, backend_nframes >>
  /\ UNCHANGED << audioVars, transportVars, pumpVars >>

\* Driver pushes under SpecEngine (any event, at most MaxPushes of them).
DriverPush ==
  /\ n_pushed < MaxPushes
  /\ \/ \E n \in BlockLengths : PushBufferSizeChange(n)
     \/ \E r \in SampleRates : PushSampleRateChange(r)

(***************************************************************************)
(* The audio thread: AudioEngine::process (spec.md 4.10).                  *)
(***************************************************************************)
\* SemaphoreRAII: a non-blocking acquire of port_operation_lock_.
TryAcquireBlocking ==
  /\ port_operation_lock > 0
  /\ port_operation_lock' = port_operation_lock - 1
  /\ acquired' = TRUE

TryAcquire ==
  IF port_operation_lock > 0
    THEN /\ port_operation_lock' = port_operation_lock - 1
         /\ acquired' = TRUE
    ELSE /\ port_operation_lock' = port_operation_lock
         /\ acquired' = FALSE

\* Entry of process(nframes): the cycle starts and the lock is tried.
ProcessStart ==
  /\ UNCHANGED nonEngineVars
  /\ audio_pc = "idle"
  /\ is_rolling => playhead < MaxPos
  /\ TryAcquire
  /\ audio_pc' = "prepare"
  /\ cycle_running' = TRUE
  /\ nframes' = backend_nframes
  /\ obs' = NoObs
  /\ splits' = << >>
  /\ nodes_processed' = 0
  /\ playhead_at_start' = playhead
  /\ out_buf' = "none"
  /\ out_frames' = 0
  /\ UNCHANGED << remaining, offset, expected_len >>
  /\ UNCHANGED << run, ev_queue, pool_in_use, processing_events,
                  handled_jack_buffer_size_change, port_buf_len, sample_rate,
                  remaining_latency_preroll, ctrl_pc, backend_nframes,
                  n_pushed >>
  /\ UNCHANGED << transportVars, pumpVars, drained_batch, handled >>

\* The skip test of process_prepare.
SkipCycleNoProcessingCheck ==
  \/ ~acquired
  \/ ~run
  \/ ev_queue # << >>

SkipCycleNoEventCheck ==
  \/ ~acquired
  \/ ~run

SkipCycle ==
  \/ ~acquired
  \/ ~run
  \/ ev_queue # << >>
  \/ processing_events

\* a release that is made at the end of the sub-block loop only
ReleaseAfterLoopOnly ==
  /\ port_operation_lock' =
       IF acquired /\ audio_pc = "loop" THEN port_operation_lock + 1
       ELSE port_operation_lock
  /\ acquired' = FALSE

\* The SemaphoreRAII destructor: releases only what it acquired.
ReleaseIfAcquired ==
  /\ port_operation_lock' =
       IF acquired THEN port_operation_lock + 1 ELSE port_operation_lock
  /\ acquired' = FALSE

\* the automation tracks of a tracklist as created: reading, none cached
AtlInit ==
  /\ ats_automation_mode_ = [at \in 1 .. NumAutomationTracks |-> "Read"]
  /\ ats_in_record_mode_ = << >>

\* a piano roll as constructed: no current notes
PianoRollInit ==
  /\ current_notes_ = << >>
  /\ piano_roll_obs = [op |-> "none"]

\* no ProjectInitFlowManager has been constructed
InitFlowInit ==
  /\ callbacks_ = << >>
  /\ appended_callbacks = << >>
  /\ cb_calls = << >>
  /\ init_in = [constructed |-> FALSE]
  /\ init_todo = << >>

\* no move action has been created
MoveInit ==
  /\ arr_objs = << >>
  /\ move_action = [type |-> "none"]
  /\ move_obs = [stage |-> "none"]

\* the engine as constructed: a positive bias of 1e-12
DenormalInit ==
  /\ denormal_prevention_val_positive_ = TRUE
  /\ denormal_prevention_val_ = 1

\* an engine as constructed, before any flow
FlowInit ==
  /\ flow_steps = << >>
  /\ pre_setup_ = FALSE
  /\ setup_ = FALSE
  /\ graph_recalculated = FALSE

\* the engine of a project whose flow has ended
FlowDone ==
  /\ flow_steps = << >>
  /\ pre_setup_ = TRUE
  /\ setup_ = TRUE
  /\ graph_recalculated = TRUE

\* a swap of the sign that is left out in a cycle that is skipped
SwapDenormalPreventionValUnlessSkipped ==
  IF SkipCycle THEN UNCHANGED denormalVars
  ELSE /\ denormal_prevention_val_positive_' =
            ~denormal_prevention_val_positive_
       /\ denormal_prevention_val_' = 0 - denormal_prevention_val_

\* the sign of the bias is swapped, once in every cycle
SwapDenormalPreventionVal ==
  /\ denormal_prevention_val_positive_' = ~denormal_prevention_val_positive_
  /\ denormal_prevention_val_' =
       IF denormal_prevention_val_positive_' THEN 1 ELSE 0 - 1

\* process_prepare: either the cycle is skipped (output cleared, return) or
\* the sub-block loop begins.
ProcessPrepare ==
  /\ UNCHANGED nonCycleVars
  /\ SwapDenormalPreventionVal
  /\ audio_pc = "prepare"
  /\ obs' = [decided |-> TRUE, acquired |-> acquired, run |-> run,
             queue_empty |-> (ev_queue = << >>),
             processing_events |-> processing_events]
  /\ IF SkipCycle
       THEN /\ out_buf' = "silence"
            /\ out_frames' = nframes
            /\ ReleaseIfAcquired
            /\ audio_pc' = "idle"
            /\ cycle_running' = FALSE
            /\ UNCHANGED << remaining, offset, expected_len >>
       ELSE /\ remaining' = nframes
            /\ offset' = 0
            /\ expected_len' = last_drained_bsc
            /\ audio_pc' = "loop"
            /\ UNCHANGED << out_buf, out_frames, port_operation_lock,
                            acquired, cycle_running >>
  /\ UNCHANGED << nframes, splits, nodes_processed, playhead_at_start >>
  /\ UNCHANGED << run, ev_queue, pool_in_use, processing_events,
                  handled_jack_buffer_size_change, port_buf_len, sample_rate,
                  remaining_latency_preroll, ctrl_pc, backend_nframes,
                  n_pushed >>
  /\ UNCHANGED << transportVars, pumpVars, drained_batch, handled >>

\* frames_until_next_loop_or_preroll_boundary(): the preroll that is left, or
\* the distance to the loop end while rolling inside the loop, or no boundary
\* within the block.
FramesUntilBoundaryOffByOne(rem) ==
  IF remaining_latency_preroll > 0
    THEN remaining_latency_preroll
    ELSE IF is_rolling /\ looping /\ playhead <= loop_end
           THEN loop_end - playhead
           ELSE rem

FramesUntilBoundary(rem) ==
  IF remaining_latency_preroll > 0
    THEN remaining_latency_preroll
    ELSE IF is_rolling /\ looping /\ playhead < loop_end
           THEN loop_end - playhead
           ELSE rem

\* Transport::post_process: the playhead advances by the rolled frames and
\* wraps to loop_start when it reaches loop_end while looping.
AdvancePlayhead(p, roll) ==
  IF looping /\ p < loop_end /\ p + roll >= loop_end
    THEN loop_start + (p + roll - loop_end)
    ELSE p + roll

\* One iteration of the while loop of process().
ProcessSplit ==
  /\ UNCHANGED nonEngineVars
  /\ audio_pc = "loop"
  /\ remaining > 0
  /\ LET split == Min(remaining, FramesUntilBoundary(remaining))
         preroll_clamped == Min(split, remaining_latency_preroll)
         roll == IF is_rolling THEN split - preroll_clamped ELSE 0
     IN  /\ splits' = Append(splits, << offset, split >>)
         /\ nodes_processed' = nodes_processed + 1
         /\ remaining_latency_preroll' =
              remaining_latency_preroll - preroll_clamped
         /\ playhead' = AdvancePlayhead(playhead, roll)
         /\ remaining' = remaining - split
         /\ offset' = offset + split
  /\ UNCHANGED << audio_pc, nframes, acquired, obs, playhead_at_start,
                  out_buf, out_frames, expected_len, cycle_running >>
  /\ UNCHANGED << port_operation_lock, run, ev_queue, pool_in_use,
                  processing_events, handled_jack_buffer_size_change,
                  port_buf_len, sample_rate, ctrl_pc, backend_nframes,
                  n_pushed >>
  /\ UNCHANGED << is_rolling, looping, loop_start, loop_end >>
  /\ UNCHANGED << pumpVars, drained_batch, handled >>

\* End of process(): fill_out_bufs(nframes) and release of the lock.
ProcessEnd ==
  /\ UNCHANGED nonEngineVars
  /\ audio_pc = "loop"
  /\ remaining = 0
  /\ out_buf' = "filled"
  /\ out_frames' = offset
  /\ ReleaseIfAcquired
  /\ audio_pc' = "idle"
  /\ cycle_running' = FALSE
  /\ UNCHANGED << nframes, remaining, offset, obs, splits, nodes_processed,
                  playhead_at_start, expected_len >>
  /\ UNCHANGED << run, ev_queue, pool_in_use, processing_events,
                  handled_jack_buffer_size_change, port_buf_len, sample_rate,
                  remaining_latency_preroll, ctrl_pc, backend_nframes,
                  n_pushed >>
  /\ UNCHANGED << transportVars, pumpVars, drained_batch, handled >>


(***************************************************************************)
(* The control thread: graph mutators (recalc_graph, strip rewiring, port  *)
(* buffer reallocation) take port_operation_lock_ before they rewire and   *)
(* wait for it (spec.md 4.9, 5).  The event pump is a Glib timeout of the  *)
(* same thread, so it does not run while a mutator does.                   *)
(***************************************************************************)
GraphMutationBegin ==
  /\ UNCHANGED nonEngineVars
  /\ ctrl_pc = "idle"
  /\ pump_pc = "idle"
  /\ port_operation_lock > 0
  /\ port_operation_lock' = port_operation_lock - 1
  /\ ctrl_pc' = "rewiring"
  /\ UNCHANGED << run, ev_queue, pool_in_use, processing_events,
                  handled_jack_buffer_size_change, port_buf_len, sample_rate,
                  remaining_latency_preroll, backend_nframes, n_pushed, drained_batch, handled >>
  /\ UNCHANGED << audioVars, transportVars, pumpVars >>

GraphMutationEnd ==
  /\ UNCHANGED nonEngineVars
  /\ ctrl_pc = "rewiring"
  /\ port_operation_lock' = port_operation_lock + 1
  /\ ctrl_pc' = "idle"
  /\ UNCHANGED << run, ev_queue, pool_in_use, processing_events,
                  handled_jack_buffer_size_change, port_buf_len, sample_rate,
                  remaining_latency_preroll, backend_nframes, n_pushed, drained_batch, handled >>
  /\ UNCHANGED << audioVars, transportVars, pumpVars >>

\* run_.store(b): activate(true) / engine stop.
EngineSetRun(b) ==
  /\ UNCHANGED nonEngineVars
  /\ run # b
  /\ run' = b
  /\ UNCHANGED << port_operation_lock, ev_queue, pool_in_use,
                  processing_events, handled_jack_buffer_size_change,
                  port_buf_len, sample_rate, remaining_latency_preroll,
                  ctrl_pc, backend_nframes, n_pushed,
                  drained_batch, handled >>
  /\ UNCHANGED << audioVars, transportVars, pumpVars >>

(***************************************************************************)
(* The event pump: AudioEngine::process_events (spec.md 4.10): dequeue     *)
(* (deduplicating identical consecutive events), acquire the lock, handle  *)
(* the events (realloc_port_buffers), resume.                              *)
(***************************************************************************)
\* The events of q that are not identical to the event right before them.

CleanDuplicates(q) ==
  LET kept == {i \in 1 .. Len(q) : i = 1 \/ q[i] # q[i - 1]}
      Nth(k) == CHOOSE i \in kept : Cardinality({j \in kept : j <= i}) = k
  IN  [k \in 1 .. Cardinality(kept) |-> q[Nth(k)]]

\* clean_duplicate_events_and_copy(std::array<Event *, 100> &ret): every queue
\* entry is popped; the events kept are copied to ret.  ret has
\* EVENTS_ARRAY_SIZE slots: storing a further event writes past the end of
\* the array (undefined behaviour), so every such event either still reaches
\* the handler (survives) or is lost.
CopiedEvents(q, survives) ==
  LET kept == CleanDuplicates(q)
  IN  IF Len(kept) <= EVENTS_ARRAY_SIZE \/ survives
        THEN kept
        ELSE SubSeq(kept, 1, EVENTS_ARRAY_SIZE)

LastBufferSize(evs, dflt) ==
  LET idx == {i \in 1 .. Len(evs) : evs[i].type = "BufferSizeChange"}
  IN  IF idx = {} THEN dflt
      ELSE evs[CHOOSE i \in idx : \A j \in idx : j <= i].uint_arg

LastSampleRate(evs, dflt) ==
  LET idx == {i \in 1 .. Len(evs) : evs[i].type = "SampleRateChange"}
  IN  IF idx = {} THEN dflt
      ELSE evs[CHOOSE i \in idx : \A j \in idx : j <= i].uint_arg

PumpStart ==
  /\ UNCHANGED nonEngineVars
  /\ pump_pc = "idle"
  /\ ctrl_pc = "idle"
  /\ ev_queue # << >>
  /\ processing_events' = TRUE
  /\ \E survives \in BOOLEAN : events' = CopiedEvents(ev_queue, survives)
  /\ drained_batch' = ev_queue
  /\ handled' = << >>
  /\ last_drained_bsc' = LastBufferSize(ev_queue, last_drained_bsc)
  /\ ev_queue' = << >>
  /\ n_pushed' = 0
  \* the duplicates are released to the pool right away
  /\ pool_in_use' = pool_in_use - (Len(ev_queue) - Len(CleanDuplicates(ev_queue)))
  /\ pump_pc' = "wait_lock"
  /\ UNCHANGED << port_operation_lock, run, handled_jack_buffer_size_change,
                  port_buf_len, sample_rate, remaining_latency_preroll,
                  ctrl_pc, backend_nframes >>
  /\ UNCHANGED << audioVars, transportVars >>


PumpAcquireLock ==
  /\ pump_pc = "wait_lock"
  /\ port_operation_lock > 0
  /\ port_operation_lock' = port_operation_lock - 1
  /\ pump_pc' = "handling"

PumpAcquire ==
  /\ UNCHANGED nonEngineVars
  /\ PumpAcquireLock
  /\ UNCHANGED << run, ev_queue, pool_in_use, processing_events,
                  handled_jack_buffer_size_change, port_buf_len, sample_rate,
                  remaining_latency_preroll, ctrl_pc, backend_nframes,
                  n_pushed, drained_batch, handled, events,
                  last_drained_bsc >>
  /\ UNCHANGED << audioVars, transportVars >>

\* realloc_port_buffers(buf_size): every audio port buffer gets the new length.

ReallocPortBuffers(n) == port_buf_len' = [p \in AudioPorts |-> n]

\* The events are handled in order, each is released to the pool, the lock is
\* released and processing resumes.
PumpHandle ==
  /\ UNCHANGED nonEngineVars
  /\ pump_pc = "handling"
  /\ IF \E i \in 1 .. Len(events) : events[i].type = "BufferSizeChange"
       THEN /\ ReallocPortBuffers(LastBufferSize(events, 0))
            /\ handled_jack_buffer_size_change' = TRUE
       ELSE UNCHANGED << port_buf_len, handled_jack_buffer_size_change >>
  /\ sample_rate' = LastSampleRate(events, sample_rate)
  /\ handled' = events
  /\ pool_in_use' = pool_in_use - Len(events)
  /\ events' = << >>
  /\ port_operation_lock' = port_operation_lock + 1
  /\ processing_events' = FALSE
  /\ pump_pc' = "idle"
  /\ UNCHANGED << run, ev_queue, remaining_latency_preroll, ctrl_pc,
                  backend_nframes, n_pushed, drained_batch,
                  last_drained_bsc >>
  /\ UNCHANGED << audioVars, transportVars >>

(***************************************************************************)
(* The channel strip (channel.cpp).  The nodes of the strip are the        *)
(* TrackProcessor, the plugins and the Prefader; a connection              *)
(* <<a, b>> stands for the port connections made by connect_to_plugin /    *)
(* connect_to_prefader from the outputs of a to the inputs of b.  The      *)
(* track is in the active project.  Every plugin instance is passed to     *)
(* add_plugin at most once, so the slot recorded in a plugin (id_.slot_)   *)
(* is the slot it is found at.                                             *)
(***************************************************************************)
NoPlugin == 0
Plugins == 1 .. MaxPlugins
\* the two fixed nodes of the strip, numbered after the plugins
TrackProcessor == MaxPlugins + 1
Prefader == MaxPlugins + 2
StripNodes == {TrackProcessor, Prefader} \cup Plugins
SlotIndexes == 0 .. (STRIP_SIZE - 1)
SlotTypes == {"MidiFx", "Instrument", "Insert"}

\* dsp::PluginSlot: a slot type, with an index unless the type is Instrument
PluginSlot(type, index) == [type |-> type, index |-> index]
HasSlotIndex(slot) == slot.type # "Instrument"

ChannelInit ==
  /\ midi_fx = [i \in SlotIndexes |-> NoPlugin]
  /\ instrument = NoPlugin
  /\ inserts = [i \in SlotIndexes |-> NoPlugin]
  /\ conns = {<< TrackProcessor, Prefader >>}
  /\ placed = {}
  /\ strip_op = [op |-> "none"]

\* Plugin::connect_to_plugin, TrackProcessor::connect_to_plugin,
\* Plugin::connect_to_prefader, TrackProcessor::connect_to_prefader
Connect(c, a, b) == c \cup {<< a, b >>}
\* the disconnect_from_plugin / disconnect_from_prefader counterparts
Disconnect(c, a, b) == c \ {<< a, b >>}
\* Plugin::disconnect: every connection of the plugin's ports goes
DisconnectAll(c, pl) == {e \in c : e[1] # pl /\ e[2] # pl}

connect_no_prev_no_next(c, pl) ==
  Connect(Connect(Disconnect(c, TrackProcessor, Prefader),
                  TrackProcessor, pl), pl, Prefader)

connect_no_prev_next(c, pl, next_pl) ==
  Connect(Connect(Disconnect(c, TrackProcessor, next_pl),
                  TrackProcessor, pl), pl, next_pl)

connect_prev_no_next(c, prev_pl, pl) ==
  Connect(Connect(Disconnect(c, prev_pl, Prefader), prev_pl, pl),
          pl, Prefader)

connect_prev_next(c, prev_pl, pl, next_pl) ==
  Connect(Connect(Disconnect(c, prev_pl, next_pl), prev_pl, pl),
          pl, next_pl)

disconnect_no_prev_no_next(c, pl) ==
  Connect(Disconnect(Disconnect(c, TrackProcessor, pl), pl, Prefader),
          TrackProcessor, Prefader)

disconnect_no_prev_next(c, pl, next_pl) ==
  Connect(Disconnect(Disconnect(c, TrackProcessor, pl), pl, next_pl),
          TrackProcessor, next_pl)

disconnect_prev_no_next(c, prev_pl, pl) ==
  Connect(Disconnect(Disconnect(c, prev_pl, pl), pl, Prefader),
          prev_pl, Prefader)

disconnect_prev_next(c, prev_pl, pl, next_pl) ==
  Connect(Disconnect(Disconnect(c, prev_pl, pl), pl, next_pl),
          prev_pl, next_pl)

\* the first plugin of arr at index k or later (NoPlugin: none)
FirstFrom(arr, k) ==
  LET occ == {i \in SlotIndexes : i >= k /\ arr[i] # NoPlugin}
  IN  IF occ = {} THEN NoPlugin
      ELSE arr[CHOOSE i \in occ : \A j \in occ : i <= j]

\* the last plugin of arr at index k or earlier (NoPlugin: none)
LastUpTo(arr, k) ==
  LET occ == {i \in SlotIndexes : i <= k /\ arr[i] # NoPlugin}
  IN  IF occ = {} THEN NoPlugin
      ELSE arr[CHOOSE i \in occ : \A j \in occ : j <= i]

PluginAt(ty, j, mfx, instr, ins) ==
  IF ty = "MidiFx" THEN mfx[j]
  ELSE IF ty = "Instrument" THEN instr
  ELSE ins[j]

\* connect_plugins: the next plugin of the plugin of type ty at slot j
ConnectNextArray(ty, mfx, ins) ==
  IF ty = "Insert" THEN ins ELSE mfx

ConnectNext(ty, j, mfx, instr, ins) ==
  LET found == FirstFrom(ConnectNextArray(ty, mfx, ins),
                         IF ty = "Instrument" THEN 0 ELSE j + 1)
  IN  IF found = NoPlugin /\ ty = "MidiFx"
        THEN IF instr # NoPlugin THEN instr ELSE FirstFrom(ins, 0)
        ELSE found

\* only the array of the plugin's own slot type is searched
ConnectPrevSameArrayOnly(ty, j, mfx, instr, ins) ==
  IF ty = "Instrument"
    THEN LastUpTo(mfx, STRIP_SIZE - 1)
    ELSE LastUpTo(IF ty = "Insert" THEN ins ELSE mfx, j - 1)

\* connect_plugins: the previous plugin of the plugin of type ty at slot j
ConnectPrev(ty, j, mfx, instr, ins) ==
  LET found == IF ty = "Instrument"
                 THEN LastUpTo(mfx, STRIP_SIZE - 1)
                 ELSE LastUpTo(IF ty = "Insert" THEN ins ELSE mfx, j - 1)
  IN  IF found = NoPlugin /\ ty = "Insert"
        THEN IF instr # NoPlugin THEN instr
             ELSE LastUpTo(mfx, STRIP_SIZE - 1)
        ELSE found

\* one round of the loop body of connect_plugins
ConnectSlot(c, ty, j, mfx, instr, ins) ==
  LET pl == PluginAt(ty, j, mfx, instr, ins)
      prev_pl == ConnectPrev(ty, j, mfx, instr, ins)
      next_pl == ConnectNext(ty, j, mfx, instr, ins)
  IN  IF pl = NoPlugin THEN c
      ELSE IF prev_pl = NoPlugin /\ next_pl = NoPlugin
        THEN connect_no_prev_no_next(c, pl)
      ELSE IF prev_pl = NoPlugin
        THEN connect_no_prev_next(c, pl, next_pl)
      ELSE IF next_pl = NoPlugin
        THEN connect_prev_no_next(c, prev_pl, pl)
      ELSE connect_prev_next(c, prev_pl, pl, next_pl)

\* connect_plugins: for (i = 0..2) for (j = 0..STRIP_SIZE-1), in this order;
\* the instrument is visited once for every j.
connect_plugins(c, mfx, instr, ins) ==
  LET TypeOf(k) == IF k <= STRIP_SIZE THEN "MidiFx"
                   ELSE IF k <= 2 * STRIP_SIZE THEN "Instrument"
                   ELSE "Insert"
      F[k \in 0 .. 3 * STRIP_SIZE] ==
        IF k = 0 THEN c
        ELSE ConnectSlot(F[k - 1], TypeOf(k), (k - 1) % STRIP_SIZE,
                         mfx, instr, ins)
  IN  F[3 * STRIP_SIZE]

\* disconnect_plugin_from_strip: the next plugin of the plugin of the slot
DisconnectNext(slot, mfx, instr, ins) ==
  LET ty == slot.type
      pos == IF HasSlotIndex(slot) THEN slot.index ELSE 0
      found_next == FirstFrom(IF ty = "MidiFx" THEN mfx ELSE ins, pos + 1)
  IN  IF found_next = NoPlugin /\ ty = "MidiFx"
        THEN IF instr # NoPlugin THEN instr ELSE FirstFrom(ins, 0)
        ELSE found_next

\* disconnect_plugin_from_strip: the previous plugin of the plugin of the slot
DisconnectPrev(slot, mfx, instr, ins) ==
  LET ty == slot.type
      pos == IF HasSlotIndex(slot) THEN slot.index ELSE 0
      found_prev == LastUpTo(IF ty = "Insert" THEN ins ELSE mfx, pos - 1)
  IN  IF found_prev = NoPlugin /\ ty = "Insert"
        THEN IF instr # NoPlugin THEN instr
             ELSE LastUpTo(mfx, STRIP_SIZE - 1)
        ELSE found_prev

\* disconnect_plugin_from_strip (the exposure of the ports aside)
disconnect_plugin_from_strip(c, slot, pl, mfx, instr, ins) ==
  LET next_pl == DisconnectNext(slot, mfx, instr, ins)
      prev_pl == DisconnectPrev(slot, mfx, instr, ins)
  IN  IF prev_pl = NoPlugin /\ next_pl = NoPlugin
        THEN disconnect_no_prev_no_next(c, pl)
      ELSE IF prev_pl = NoPlugin
        THEN disconnect_no_prev_next(c, pl, next_pl)
      ELSE IF next_pl = NoPlugin
        THEN disconnect_prev_no_next(c, prev_pl, pl)
      ELSE disconnect_prev_next(c, prev_pl, pl, next_pl)

\* the connections after remove_plugin(slot, moving_plugin, deleting_plugin):
\* the slot arrays are left as they are.
RemovePluginConns(c, slot, deleting_plugin, mfx, instr, ins) ==
  LET pl == PluginAt(slot.type, slot.index, mfx, instr, ins)
      c1 == disconnect_plugin_from_strip(c, slot, pl, mfx, instr, ins)
  IN  IF deleting_plugin THEN DisconnectAll(c1, pl) ELSE c1

remove_plugin(slot, moving_plugin, deleting_plugin) ==
  /\ PluginAt(slot.type, slot.index, midi_fx, instrument, inserts) # NoPlugin
  /\ conns' = RemovePluginConns(conns, slot, deleting_plugin,
                                midi_fx, instrument, inserts)
  /\ strip_op' = [op |-> "remove", slot |-> slot, before |-> conns,
                  deleting |-> deleting_plugin,
                  plugin |-> PluginAt(slot.type, slot.index,
                                      midi_fx, instrument, inserts),
                  undoes_add |-> /\ strip_op.op = "add"
                                 /\ strip_op.slot = slot
                                 /\ strip_op.existing = NoPlugin,
                  before_add |-> IF strip_op.op = "add" THEN strip_op.before
                                 ELSE {}]
  /\ UNCHANGED << midi_fx, instrument, inserts, placed >>
  /\ UNCHANGED nonChannelVars

add_plugin(plugin_id, slot, moving_plugin) ==
  LET existing == PluginAt(slot.type, slot.index, midi_fx, instrument, inserts)
      c1 == IF existing # NoPlugin
              THEN RemovePluginConns(conns, slot, TRUE,
                                     midi_fx, instrument, inserts)
              ELSE conns
      mfx == IF slot.type = "MidiFx"
               THEN [midi_fx EXCEPT ![slot.index] = plugin_id] ELSE midi_fx
      instr == IF slot.type = "Instrument" THEN plugin_id ELSE instrument
      ins == IF slot.type = "Insert"
               THEN [inserts EXCEPT ![slot.index] = plugin_id] ELSE inserts
  IN  /\ plugin_id \notin placed
      /\ midi_fx' = mfx
      /\ instrument' = instr
      /\ inserts' = ins
      /\ conns' = connect_plugins(c1, mfx, instr, ins)
      /\ placed' = placed \cup {plugin_id}
      /\ strip_op' = [op |-> "add", slot |-> slot, before |-> conns,
                      deleting |-> FALSE, plugin |-> plugin_id,
                      existing |-> existing]
      /\ UNCHANGED nonChannelVars

\* get_plugin_at_slot(slot): the plugin whose id the slot holds, if any
get_plugin_at_slot(slot) ==
  PluginAt(slot.type, slot.index, midi_fx, instrument, inserts)

\* get_plugins(pls): the inserts, the MIDI FX and the instrument that the
\* slots hold, in this order
get_plugins ==
  LET Held(x) == x # NoPlugin
      ins == SelectSeq([i \in 1 .. STRIP_SIZE |-> inserts[i - 1]], Held)
      mfx == SelectSeq([i \in 1 .. STRIP_SIZE |-> midi_fx[i - 1]], Held)
  IN  ins \o mfx \o (IF instrument # NoPlugin THEN << instrument >> ELSE << >>)

UsedSlots ==
  {PluginSlot("Instrument", 0)}
    \cup {PluginSlot(ty, i) : ty \in {"MidiFx", "Insert"}, i \in 0 .. MaxSlotIndex}

AddPlugin ==
  \E p \in Plugins, slot \in UsedSlots, moving \in BOOLEAN :
    add_plugin(p, slot, moving)

RemovePlugin ==
  \E slot \in UsedSlots, moving \in BOOLEAN, deleting \in BOOLEAN :
    remove_plugin(slot, moving, deleting)

\* the nodes reachable from n along one or more connections
ReachableFrom(c, n) ==
  LET Step(S) == S \cup {e[2] : e \in {x \in c : x[1] \in S}}
      F[k \in 0 .. Cardinality(StripNodes)] ==
        IF k = 0 THEN {e[2] : e \in {x \in c : x[1] = n}}
        ELSE Step(F[k - 1])
  IN  F[Cardinality(StripNodes)]

Acyclic(c) == \A n \in StripNodes : n \notin ReachableFrom(c, n)

(***************************************************************************)
(* The fader (fader.cpp).  Amplitudes are counted in steps of 1 / AmpDen.  *)
(* A sample of a block is kept as the gain << numerator, denominator >>    *)
(* that the mute and fade stages of process_block apply to its input; the  *)
(* stages that multiply the whole block whatever the mute state (dim,      *)
(* listen, amp and pan, mono compatibility, phase) are left out of it.     *)
(***************************************************************************)
FaderTypes == {"AudioChannel", "MidiChannel", "Monitor", "SampleProcessor"}

IsChannelFader(type) == type = "AudioChannel" \/ type = "MidiChannel"

\* has_audio_ports (fader.h): every fader but the MIDI channel fader
has_audio_ports(type) == type # "MidiChannel"

\* the multiplier range of a fader's amp port is [0, 2]
MuteAmps == 0 .. MaxMuteAmp

\* a fader as constructed: type_, passthrough_ and its track (master or not,
\* group target or not; the master track is an audio group target)
FaderKinds ==
  {k \in [type : FaderTypes, passthrough : BOOLEAN, is_master : BOOLEAN,
          group_target : BOOLEAN] :
     /\ k.is_master => (k.type = "AudioChannel" /\ k.group_target)
     /\ ~IsChannelFader(k.type) =>
          (~k.is_master /\ ~k.group_target /\ ~k.passthrough)}

\* what process_block reads: the mute and solo ports, the solo state of the
\* tracks around the fader's track, the bounce settings
InputFields ==
  {"mute", "solo", "ancestor_soloed", "child_soloed", "other_soloed",
   "bounce_on", "track_bounce"}

\* the inputs that exist for a fader of kind k: only a channel fader has a
\* track; the master track has no output track; only a group target has
\* children
FieldsOf(k) ==
  {f \in InputFields :
     /\ f \in {"solo", "ancestor_soloed", "child_soloed", "track_bounce"}
          => IsChannelFader(k.type)
     /\ f = "ancestor_soloed" => ~k.is_master
     /\ f = "child_soloed" => k.group_target}

NoInput ==
  [mute |-> FALSE, solo |-> FALSE, ancestor_soloed |-> FALSE,
   child_soloed |-> FALSE, other_soloed |-> FALSE, bounce_on |-> FALSE,
   track_bounce |-> FALSE]

\* fresh: no input changed since the block was processed
NoBlock ==
  [ran |-> FALSE, fresh |-> FALSE, nframes |-> 0, amp |-> 0,
   effectively_muted |-> FALSE, was |-> FALSE, armed |-> "none",
   armed_frames |-> 0, fade_in |-> 0, fade_out |-> 0, fading_out |-> FALSE,
   gain_l |-> << >>, gain_r |-> << >>, midi_passed |-> FALSE,
   out_l |-> << >>, out_r |-> << >>, cc_volume_emitted |-> FALSE]

\* the samples a block can hold on a channel (every frame of a block holds the
\* same sample), the positions of the balance port (0.0, 0.5, 1.0)
Samples == {0 - MaxSample, 1, MaxSample}
PanPositions == {0, 1, 2}
MidiFaderModes == {"VelMultiplier", "CCVolume"}

\* the fader as constructed: amp 1.0, centred, MIDI_FADER_MODE_VEL_MULTIPLIER
DefaultSignal ==
  [in_l |-> 1, in_r |-> 1, amp |-> AmpDen, pan |-> 1, mono |-> FALSE,
   phase |-> FALSE, midi_mode |-> "VelMultiplier"]

FaderInit ==
  /\ f_kind \in FaderKinds
  /\ f_in = NoInput
  /\ mute_amp = 0
  /\ fade_in_samples = 0
  /\ fade_out_samples = 0
  /\ fading_out = FALSE
  /\ was_effectively_muted = FALSE
  /\ f_sig = DefaultSignal
  /\ last_cc_volume = 0
  /\ blk = NoBlock

\* TRACKLIST->get_track_span().has_soloed()
HasSoloed(in) ==
  in.solo \/ in.ancestor_soloed \/ in.child_soloed \/ in.other_soloed

get_implied_soloed(k, in) ==
  IF ~IsChannelFader(k.type) \/ k.passthrough \/ in.solo
    THEN FALSE
    ELSE in.ancestor_soloed \/ (k.group_target /\ in.child_soloed)

\* process_block fetches the track of an AudioChannel fader only
TrackFetched(k) == k.type = "AudioChannel"

EffectivelyMuted(k, in) ==
  /\ ~k.passthrough
  /\ \/ in.mute
     \/ /\ IsChannelFader(k.type)
        /\ HasSoloed(in)
        /\ ~in.solo
        /\ ~get_implied_soloed(k, in)
        /\ ~(TrackFetched(k) /\ k.is_master)
     \/ /\ in.bounce_on
        /\ IsChannelFader(k.type)
        /\ TrackFetched(k)
        /\ ~k.is_master
        /\ ~in.track_bounce

\* one fade length for every fader
fade_frames_for_type_Same(type) == FADER_DEFAULT_FADE_FRAMES

fade_frames_for_type(type) ==
  IF type = "Monitor" THEN FADER_DEFAULT_FADE_FRAMES
  ELSE FADER_DEFAULT_FADE_FRAMES_SHORT

Unity == << 1, 1 >>
Silence == << 0, 1 >>
MulGain(g, h) == << g[1] * h[1], g[2] * h[2] >>
AmpGain(m) == << m, AmpDen >>

\* the multiplier of a linear fade-in from m at position j of total frames
FadeInGain(j, total, m) == << m * total + (AmpDen - m) * j, AmpDen * total >>
\* the multiplier of a linear fade-out to m at position j of total frames
FadeOutGain(j, total, m) ==
  << m * total + (AmpDen - m) * (total - j), AmpDen * total >>

dsp_linear_fade_in_from(buf, start_offset, total, size, m) ==
  [i \in 1 .. Len(buf) |->
     IF i <= size
       THEN MulGain(buf[i], FadeInGain(start_offset + i - 1, total, m))
       ELSE buf[i]]

dsp_linear_fade_out_to(buf, start_offset, total, size, m) ==
  [i \in 1 .. Len(buf) |->
     IF i <= size
       THEN MulGain(buf[i], FadeOutGain(start_offset + i - 1, total, m))
       ELSE buf[i]]

\* mul_k2 (&buf[from], k, count)
dsp_mul_k2(buf, from, count, m) ==
  [i \in 1 .. Len(buf) |->
     IF i > from /\ i <= from + count
       THEN MulGain(buf[i], AmpGain(m)) ELSE buf[i]]

\* fill (&buf[from], denormal_prevention_val_, count)
dsp_fill(buf, from, count) ==
  [i \in 1 .. Len(buf) |->
     IF i > from /\ i <= from + count THEN Silence ELSE buf[i]]

\* mul_k2 (&buf[0], k, nframes) with any multiplier k
ScaleBlock(buf, k) == [i \in 1 .. Len(buf) |-> MulGain(buf[i], k)]

\* calculate_balance_control (Linear, pan): << calc_l, calc_r >>
calculate_balance_control(pan) ==
  << IF pan <= 1 THEN 1 ELSE 0, IF pan >= 1 THEN 1 ELSE 0 >>

\* make_mono with equal amplitude: (L + R) / 2 on both channels
dsp_make_mono(l, r) ==
  [i \in 1 .. Len(l) |->
     << l[i][1] * r[i][2] + r[i][1] * l[i][2], 2 * l[i][2] * r[i][2] >>]

\* a limiter with no lower bound
dsp_clip_max_only(buf, minf, maxf) ==
  [i \in 1 .. Len(buf) |->
     IF maxf * buf[i][2] < buf[i][1] THEN << maxf, 1 >> ELSE buf[i]]

\* std::clamp (x, minf, maxf) on every sample
dsp_clip(buf, minf, maxf) ==
  [i \in 1 .. Len(buf) |->
     IF buf[i][1] < minf * buf[i][2] THEN << minf, 1 >>
     ELSE IF maxf * buf[i][2] < buf[i][1] THEN << maxf, 1 >>
     ELSE buf[i]]

\* master or monitor or sample processor: the output is hard limited
HardLimited(k) ==
  \/ k.type = "AudioChannel" /\ TrackFetched(k) /\ k.is_master
  \/ k.type = "Monitor"
  \/ k.type = "SampleProcessor"

\* a fade armed one frame short
ArmedFadeSamplesShort(default_fade_frames) == default_fade_frames - 1

\* fade_out_samples_.store (default_fade_frames),
\* fade_in_samples_.store (default_fade_frames)
ArmedFadeSamples(default_fade_frames) == default_fade_frames

\* a fade-out that runs on to the end of the block
SamplesToProcessWholeBlock(fade_out, n) == n

\* samples_to_process: the frames of the block the fade-out covers
SamplesToProcess(fade_out, n) == Max(0, Min(fade_out, n))

\* Fader::process_block on a block of n frames.
process_block(n) ==
  LET k == f_kind
      in == f_in
      default_fade_frames == fade_frames_for_type(k.type)
      effectively_muted == EffectivelyMuted(k, in)
      audio == has_audio_ports(k.type) /\ ~k.passthrough
      monitor == k.type = "Monitor"
      \* mute_amp: denormal_prevention_val_ (1e-12) for the monitor fader
      amp == IF monitor THEN 0 ELSE mute_amp
      arm_out ==
        audio /\ ~monitor /\ effectively_muted /\ ~was_effectively_muted
      arm_in ==
        audio /\ ~monitor /\ ~effectively_muted /\ was_effectively_muted
      fo1 == IF arm_out THEN ArmedFadeSamples(default_fade_frames)
             ELSE fade_out_samples
      fading1 == IF arm_out THEN TRUE
                 ELSE IF arm_in THEN FALSE ELSE fading_out
      fi1 == IF arm_in THEN ArmedFadeSamples(default_fade_frames)
             ELSE fade_in_samples
      \* handle fade in
      fail_in == fi1 > 0 /\ ~(default_fade_frames >= fi1)
      fade_in_stage(b) ==
        IF fi1 > 0
          THEN dsp_linear_fade_in_from(b, default_fade_frames - fi1,
                                       default_fade_frames, n, amp)
          ELSE b
      fi2 == IF fi1 > 0 THEN Max(fi1 - n, 0) ELSE fi1
      \* handle fade out
      samples_to_process == SamplesToProcess(fo1, n)
      fade_out_now == fading1 /\ fo1 > 0
      fail_out == fade_out_now /\ ~(default_fade_frames >= fo1)
      fade_out_stage(b) ==
        IF fade_out_now
          THEN dsp_linear_fade_out_to(b, default_fade_frames - fo1,
                                      default_fade_frames,
                                      samples_to_process, amp)
          ELSE b
      fo2 == IF fade_out_now THEN fo1 - samples_to_process ELSE fo1
      faded1 == IF fade_out_now THEN samples_to_process ELSE 0
      remaining_frames == n - samples_to_process
      tail == fading1 /\ fo2 = 0 /\ remaining_frames > 0
      tail_stage(b) ==
        IF tail THEN dsp_mul_k2(b, faded1, remaining_frames, amp) ELSE b
      faded_out_frames == IF tail THEN faded1 + remaining_frames ELSE faded1
      fades(b) == tail_stage(fade_out_stage(fade_in_stage(b)))
      \* apply fader and pan, make mono, swap phase
      calc == calculate_balance_control(f_sig.pan)
      pan_l(b) == ScaleBlock(b, << f_sig.amp * calc[1], AmpDen >>)
      pan_r(b) == ScaleBlock(b, << f_sig.amp * calc[2], AmpDen >>)
      mono(l, r, own) == IF f_sig.mono THEN dsp_make_mono(l, r) ELSE own
      phase(b) == IF f_sig.phase THEN ScaleBlock(b, << 0 - 1, 1 >>) ELSE b
      \* apply mute level
      mute_stage == effectively_muted /\ fo2 = 0 /\ n - faded_out_frames > 0
      mute_l(b) ==
        IF ~mute_stage THEN b
        ELSE IF amp = 0
          THEN dsp_fill(b, faded_out_frames, n - faded_out_frames)
          ELSE dsp_mul_k2(b, 0, n - faded_out_frames, amp)
      mute_r(b) ==
        IF ~mute_stage THEN b
        ELSE IF amp = 0
          THEN dsp_fill(b, faded_out_frames, n - faded_out_frames)
          ELSE dsp_mul_k2(b, faded_out_frames, n - faded_out_frames, amp)
      \* hard limit the output
      limit(b) == IF HardLimited(k) THEN dsp_clip(b, 0 - 2, 2) ELSE b
      \* the gain of the fades and of the mute level alone
      buf0 == [i \in 1 .. n |-> Unity]
      gain_l == mute_l(fades(buf0))
      gain_r == mute_r(fades(buf0))
      \* the output buffers: the input copied, then every stage
      in_l == [i \in 1 .. n |-> << f_sig.in_l, 1 >>]
      in_r == [i \in 1 .. n |-> << f_sig.in_r, 1 >>]
      amp_l == pan_l(fades(in_l))
      amp_r == pan_r(fades(in_r))
      out_l == IF k.passthrough THEN in_l
               ELSE limit(mute_l(phase(mono(amp_l, amp_r, amp_l))))
      out_r == IF k.passthrough THEN in_r
               ELSE limit(mute_r(phase(mono(amp_l, amp_r, amp_r))))
      observed ==
        [ran |-> TRUE, fresh |-> TRUE, nframes |-> n, amp |-> amp,
         effectively_muted |-> effectively_muted,
         was |-> was_effectively_muted,
         armed |-> IF arm_out THEN "fade_out"
                   ELSE IF arm_in THEN "fade_in" ELSE "none",
         armed_frames |-> IF arm_out \/ arm_in THEN default_fade_frames ELSE 0,
         fade_in |-> fi1, fade_out |-> fo1, fading_out |-> fading1,
         gain_l |-> IF audio THEN gain_l ELSE << >>,
         gain_r |-> IF audio THEN gain_r ELSE << >>,
         midi_passed |-> k.type = "MidiChannel" /\ ~effectively_muted,
         out_l |-> IF has_audio_ports(k.type) THEN out_l ELSE << >>,
         out_r |-> IF has_audio_ports(k.type) THEN out_r ELSE << >>,
         \* CCVolume mode: "TODO add volume event on each channel"
         cc_volume_emitted |-> FALSE]
  IN  IF audio /\ fail_in
        \* z_return_if_fail_cmp: the block is given up
        THEN /\ fade_in_samples' = fi1
             /\ fade_out_samples' = fo1
             /\ fading_out' = fading1
             /\ UNCHANGED << was_effectively_muted, blk >>
      ELSE IF audio /\ fail_out
        THEN /\ fade_in_samples' = fi2
             /\ fade_out_samples' = fo1
             /\ fading_out' = fading1
             /\ UNCHANGED << was_effectively_muted, blk >>
      ELSE /\ fade_in_samples' = IF audio THEN fi2 ELSE fade_in_samples
           /\ fade_out_samples' = IF audio THEN fo2 ELSE fade_out_samples
           /\ fading_out' = IF audio THEN fading1 ELSE fading_out
           /\ was_effectively_muted' = effectively_muted
           /\ blk' = observed

ProcessBlock ==
  /\ \E n \in 1 .. MaxFaderFrames : process_block(n)
  /\ UNCHANGED << f_kind, f_in, mute_amp, f_sig, last_cc_volume >>
  /\ UNCHANGED nonFaderVars

\* set_muted, set_soloed on this fader or on a track around it, the bounce
\* mode of the engine, the bounce flag of the track: one input changes
\* between two blocks.
SetInput ==
  /\ \E f \in FieldsOf(f_kind) : f_in' = [f_in EXCEPT ![f] = ~f_in[f]]
  /\ blk' = [blk EXCEPT !.fresh = FALSE]
  /\ UNCHANGED << f_kind, mute_amp, fade_in_samples, fade_out_samples,
                  fading_out, was_effectively_muted, f_sig, last_cc_volume >>
  /\ UNCHANGED nonFaderVars

\* CONTROL_ROOM->mute_fader_->set_amp
SetMuteAmp ==
  /\ \E m \in MuteAmps : m # mute_amp /\ mute_amp' = m
  /\ blk' = [blk EXCEPT !.fresh = FALSE]
  /\ UNCHANGED << f_kind, f_in, fade_in_samples, fade_out_samples,
                  fading_out, was_effectively_muted, f_sig, last_cc_volume >>
  /\ UNCHANGED nonFaderVars

\* the ports and settings a fader of kind k has besides mute and solo
SignalFields(k) ==
  IF has_audio_ports(k.type)
    THEN {"in_l", "in_r", "amp", "pan", "mono", "phase"}
    ELSE {"amp", "midi_mode"}

SignalValues(f) ==
  CASE f \in {"in_l", "in_r"} -> Samples
    [] f = "amp" -> MuteAmps
    [] f = "pan" -> PanPositions
    [] f \in {"mono", "phase"} -> BOOLEAN
    [] f = "midi_mode" -> MidiFaderModes

\* set_amp, set_midi_mode, the balance, mono compat and swap phase ports, the
\* signal at the input: one of them changes between two blocks (the block
\* observed before the change is forgotten)
SetSignal ==
  /\ \E f \in SignalFields(f_kind) : \E v \in SignalValues(f) :
       /\ v # f_sig[f]
       /\ f_sig' = [f_sig EXCEPT ![f] = v]
  /\ blk' = NoBlock
  /\ UNCHANGED << f_kind, f_in, mute_amp, fade_in_samples, fade_out_samples,
                  fading_out, was_effectively_muted, last_cc_volume >>
  /\ UNCHANGED nonFaderVars

\* set_muted
SetMuted ==
  /\ f_in' = [f_in EXCEPT !.mute = ~f_in.mute]
  /\ blk' = NoBlock
  /\ UNCHANGED << f_kind, mute_amp, fade_in_samples, fade_out_samples,
                  fading_out, was_effectively_muted, f_sig, last_cc_volume >>
  /\ UNCHANGED nonFaderVars

(***************************************************************************)
(* The tracklist: the output routing and the solo state of the tracks, as  *)
(* Fader::get_implied_soloed reads them for the channel fader of a track.  *)
(***************************************************************************)
Tracks == 1 .. MaxTracks
NoTrack == 0
P_MASTER_TRACK == 1

\* the master track has no output track; the output track of any other
\* track, if it has one, is a group target created before it
TracklistInit ==
  /\ tracks \in [Tracks -> [output : {NoTrack} \cup Tracks,
                            group_target : BOOLEAN, soloed : {FALSE}]]
  /\ tracks[P_MASTER_TRACK].output = NoTrack
  /\ tracks[P_MASTER_TRACK].group_target
  /\ \A t \in Tracks \ {P_MASTER_TRACK} :
       /\ tracks[t].output < t
       /\ tracks[t].output # NoTrack => tracks[tracks[t].output].group_target

\* every track routed to the master track
TracklistAtRest ==
  tracks = [t \in Tracks |->
              [output |-> IF t = P_MASTER_TRACK THEN NoTrack
                          ELSE P_MASTER_TRACK,
               group_target |-> t = P_MASTER_TRACK, soloed |-> FALSE]]

\* channel_->get_output_track ()
get_output_track(t) == tracks[t].output

\* GroupTargetTrack::children_
children_(t) == {c \in Tracks : tracks[c].output = t}

\* only the output track itself is looked at
OutputTrackSoloedDirect(t) ==
  get_output_track(t) # NoTrack /\ tracks[get_output_track(t)].soloed

\* "check parents": the do-while loop over the chain of output tracks
RECURSIVE OutputTrackSoloed(_)
OutputTrackSoloed(t) ==
  LET out_track == get_output_track(t)
  IN  IF out_track = NoTrack THEN FALSE
      ELSE IF tracks[out_track].soloed THEN TRUE
      ELSE OutputTrackSoloed(out_track)

\* Fader::get_implied_soloed of the channel fader of track t
RECURSIVE TrackImpliedSoloed(_)
TrackImpliedSoloed(t) ==
  IF tracks[t].soloed THEN FALSE
  ELSE IF OutputTrackSoloed(t) THEN TRUE
  ELSE /\ tracks[t].group_target
       /\ \E c \in children_(t) : tracks[c].soloed \/ TrackImpliedSoloed(c)

\* the channel fader of track t and what its process_block reads, with the
\* mute port off and the engine not bouncing
KindOf(t) ==
  [type |-> "AudioChannel", passthrough |-> FALSE,
   is_master |-> t = P_MASTER_TRACK, group_target |-> tracks[t].group_target]

FaderInputOf(t) ==
  [mute |-> FALSE, solo |-> tracks[t].soloed,
   ancestor_soloed |-> OutputTrackSoloed(t),
   child_soloed |->
     \E c \in children_(t) : tracks[c].soloed \/ TrackImpliedSoloed(c),
   other_soloed |-> \E u \in Tracks \ {t} : tracks[u].soloed,
   bounce_on |-> FALSE, track_bounce |-> FALSE]

\* Fader::set_soloed on the channel fader of a track
SetSoloed ==
  /\ \E t \in Tracks :
       tracks' = [tracks EXCEPT ![t].soloed = ~tracks[t].soloed]
  /\ UNCHANGED nonTracklistVars

(***************************************************************************)
(* Port connections: PortConnectionAction (port_connection_action.h)       *)
(* performed on the connections of the project.  A connection is a record  *)
(* (src_id, dest_id, multiplier, enabled); the connections are kept as a   *)
(* bag, so that two connections of one pair can be told from one.          *)
(***************************************************************************)
Ports == 1 .. MaxPorts
\* the multipliers a ChangeMultiplier action sets: unity and the largest
Multipliers == {1, MaxMultiplier}

\* PortConnectionAction::Type
PortConnectionActionTypes ==
  {"Connect", "Disconnect", "Enable", "Disable", "ChangeMultiplier"}

PortConnectionAction(type, src_id, dest_id, new_val) ==
  [type |-> type, src_id |-> src_id, dest_id |-> dest_id, val |-> new_val]

\* a connect action that names the ports the other way round
PortConnectionConnectActionReversed(src_id, dest_id) ==
  PortConnectionAction("Connect", dest_id, src_id, 0)

PortConnectionConnectAction(src_id, dest_id) ==
  PortConnectionAction("Connect", src_id, dest_id, 0)

ConnectionsInit ==
  /\ port_conns = EmptyBag
  /\ conn_obs = [request |-> "none"]

\* the connections of the pair (src, dst), as a bag
ConnectionsOf(b, src, dst) ==
  [c \in {x \in BagToSet(b) : x.src_id = src /\ x.dest_id = dst} |-> b[c]]

\* the connections with those of the pair (src, dst) replaced by f of them
WithConnections(b, src, dst, f(_)) ==
  LET old == ConnectionsOf(b, src, dst)
      new == {f(c) : c \in BagToSet(old)}
  IN  (b (-) old)
        (+) [c \in new |-> BagCardinality(
                [x \in {y \in BagToSet(old) : f(y) = c} |-> old[x]])]

\* perform_impl: do_or_undo (true) of an action on the connections b;
\* << connections after, result >>
perform_impl(b, a) ==
  LET exists == ConnectionsOf(b, a.src_id, a.dest_id) # EmptyBag
      Enabled(c) == [c EXCEPT !.enabled = TRUE]
      Disabled(c) == [c EXCEPT !.enabled = FALSE]
      Scaled(c) == [c EXCEPT !.multiplier = a.val]
  IN  IF a.type = "Connect"
        THEN IF exists THEN << b, "AlreadyConnected" >>
             ELSE << b (+) SetToBag({[src_id |-> a.src_id,
                                      dest_id |-> a.dest_id,
                                      multiplier |-> 1, enabled |-> TRUE]}),
                     "Connected" >>
      ELSE IF ~exists THEN << b, "NotConnected" >>
      ELSE IF a.type = "Disconnect"
        THEN << b (-) ConnectionsOf(b, a.src_id, a.dest_id), "Done" >>
      ELSE IF a.type = "Enable"
        THEN << WithConnections(b, a.src_id, a.dest_id, Enabled), "Done" >>
      ELSE IF a.type = "Disable"
        THEN << WithConnections(b, a.src_id, a.dest_id, Disabled), "Done" >>
      ELSE << WithConnections(b, a.src_id, a.dest_id, Scaled), "Done" >>

\* the action object built for a request
ActionFor(type, src, dst, val) ==
  IF type = "Connect" THEN PortConnectionConnectAction(src, dst)
  ELSE PortConnectionAction(type, src, dst,
                            IF type = "ChangeMultiplier" THEN val ELSE 0)

\* UNDO_MANAGER->perform of a port connection action
PerformPortConnectionAction ==
  /\ \E type \in PortConnectionActionTypes, src \in Ports, dst \in Ports,
        val \in Multipliers :
       LET done == perform_impl(port_conns, ActionFor(type, src, dst, val))
       IN  /\ src # dst
           /\ type # "ChangeMultiplier" => val = 1
           /\ port_conns' = done[1]
           /\ conn_obs' =
                [request |-> type, src |-> src, dest |-> dst,
                 was_connected |->
                   ConnectionsOf(port_conns, src, dst) # EmptyBag,
                 result |-> done[2], changed |-> done[1] # port_conns]
  /\ UNCHANGED nonConnectionVars

(***************************************************************************)
(* AutomationTrack (automation_track.cpp): the regions of one automation   *)
(* track and the value of the track at a timeline position.  A region is   *)
(* (pos, end_pos, muted, aps) with its loop over the whole region; an      *)
(* automation point is (pos, normalized_val) with pos local to the region  *)
(* and a linear curve.  Values are in units of 1 / MaxApVal; a computed    *)
(* value is the fraction << num, den >> of such units.                     *)
(***************************************************************************)
ApVals == 0 .. MaxApVal
TimelinePositions == 0 .. (MaxRegionPos + MaxRegionLen)

AutomationModes == {"Read", "Record", "Off"}
AutomationRecordModes == {"Touch", "Latch"}

\* a track that reads automation, its port touched at the start of the clock
RecordingInit ==
  /\ automation_mode_ = "Read"
  /\ record_mode_ = "Touch"
  /\ recording_started_ = FALSE
  /\ last_change_time_ = 0
  /\ rt_now = 0
  /\ rec_obs = [op |-> "none"]

AutomationInit ==
  /\ at_regions = << >>
  /\ at_port_val \in {0, MaxApVal}
  /\ at_obs = [op |-> "none"]
  /\ RecordingInit

AutomationAtRest ==
  /\ at_regions = << >>
  /\ at_port_val = 0
  /\ at_obs = [op |-> "none"]
  /\ RecordingInit

\* a mapping that does not go back at the loop end
timeline_frames_to_local_no_wrap(r, timeline_frames) ==
  timeline_frames - r.pos + r.clip_start_pos

\* Region::timeline_frames_to_local (timeline_frames, normalize = true):
\* the frames from the start of the region, counted from the clip start,
\* taken back by the length of the loop while at or after the loop end
timeline_frames_to_local(r, timeline_frames) ==
  LET diff_frames == timeline_frames - r.pos + r.clip_start_pos
      loop_size == r.loop_end_pos - r.loop_start_pos
  IN  IF diff_frames >= r.loop_end_pos
        THEN r.loop_start_pos + ((diff_frames - r.loop_start_pos) % loop_size)
      ELSE diff_frames

\* index in regions of the region found, 0 for none
get_region_before_pos(regions, pos, ends_after) ==
  IF ends_after
    THEN LET found == {i \in 1 .. Len(regions) :
                         regions[i].pos <= pos /\ regions[i].end_pos >= pos}
         IN  IF found = {} THEN 0
             ELSE CHOOSE i \in found : \A j \in found : j <= i
    ELSE LET found == {i \in 1 .. Len(regions) : regions[i].pos <= pos}
         IN  IF found = {} THEN 0
             ELSE CHOOSE i \in found : \A j \in found :
                    \/ regions[i].end_pos > regions[j].end_pos
                    \/ regions[i].end_pos = regions[j].end_pos /\ j <= i

\* the local position at which the region r is read for pos
LocalPos(r, pos, ends_after) ==
  timeline_frames_to_local(
    r, IF ~ends_after /\ r.end_pos < pos THEN r.end_pos - 1 ELSE pos)

\* a search that walks aps_ from the front
get_ap_before_pos_forward(regions, pos, ends_after) ==
  LET ri == get_region_before_pos(regions, pos, ends_after)
  IN  IF ri = 0 \/ regions[ri].muted THEN 0
      ELSE LET r == regions[ri]
               before == {k \in 1 .. Len(r.aps) :
                            r.aps[k].pos <= LocalPos(r, pos, ends_after)}
           IN  IF before = {} THEN 0
               ELSE CHOOSE k \in before : \A j \in before : k <= j

\* index in the region's aps_ of the point found, 0 for none
get_ap_before_pos(regions, pos, ends_after) ==
  LET ri == get_region_before_pos(regions, pos, ends_after)
  IN  IF ri = 0 \/ regions[ri].muted THEN 0
      ELSE LET r == regions[ri]
               before == {k \in 1 .. Len(r.aps) :
                            r.aps[k].pos <= LocalPos(r, pos, ends_after)}
           IN  IF before = {} THEN 0
               ELSE CHOOSE k \in before : \A j \in before : j <= k

\* AutomationRegion::get_next_ap (ap, false, false): index, 0 for none
get_next_ap(r, k) == IF k < Len(r.aps) THEN k + 1 ELSE 0

\* AutomationPoint::get_normalized_value_in_curve of a linear curve at the
\* ratio num / den: the numerator of the value over den
get_normalized_value_in_curve(r, k, num, den) ==
  LET next == get_next_ap(r, k)
      start_higher == r.aps[next].normalized_val < r.aps[k].normalized_val
  IN  IF start_higher THEN den - num ELSE num

\* a local position that is not brought back into the loop
ValLocalPosNotNormalized(r, pos, ends_after) ==
  (IF ~ends_after /\ r.end_pos < pos THEN r.end_pos - 1 ELSE pos) - r.pos

\* the local position at which get_val_at_pos reads the region r for pos
ValLocalPos(r, pos, ends_after) ==
  timeline_frames_to_local(
    r, IF ~ends_after /\ r.end_pos < pos THEN r.end_pos - 1 ELSE pos)

\* the ratio of how far localp is in the curve from ap to next_ap, as
\* << num, den >>: 0 at the point, 1 when the two points share their position
CurveRatio(ap, next_ap, localp) ==
  LET numerator == localp - ap.pos
      denominator == next_ap.pos - ap.pos
  IN  IF numerator = 0 THEN << 0, 1 >>
      ELSE IF denominator = 0 THEN << 1, 1 >>
      ELSE IF denominator < 0 THEN << 0 - numerator, 0 - denominator >>
      ELSE << numerator, denominator >>

\* get_val_at_pos (pos, normalized = true, ends_after): << num, den >>
get_val_at_pos(regions, port_val, pos, ends_after) ==
  LET k == get_ap_before_pos(regions, pos, ends_after)
  IN  IF k = 0 THEN << port_val, 1 >>
      ELSE
        LET r == regions[get_region_before_pos(regions, pos, ends_after)]
            localp == ValLocalPos(r, pos, ends_after)
            next == get_next_ap(r, k)
        IN  IF next = 0 THEN << r.aps[k].normalized_val, 1 >>
            ELSE
              LET ap == r.aps[k]
                  next_ap == r.aps[next]
                  prev_ap_lower == ap.normalized_val <= next_ap.normalized_val
                  cur_next_diff ==
                    IF prev_ap_lower
                      THEN next_ap.normalized_val - ap.normalized_val
                      ELSE ap.normalized_val - next_ap.normalized_val
                  ratio == CurveRatio(ap, next_ap, localp)
                  curve == get_normalized_value_in_curve(
                             r, k, ratio[1], ratio[2])
                  base == IF prev_ap_lower THEN ap.normalized_val
                          ELSE next_ap.normalized_val
              IN  IF ratio[1] < 0 THEN << 0, 1 >>
                  ELSE << curve * cur_next_diff + base * ratio[2],
                          ratio[2] >>

\* number of automation points of the track
RECURSIVE NumAps(_)
NumAps(regions) ==
  IF regions = << >> THEN 0
  ELSE Len(Head(regions).aps) + NumAps(Tail(regions))

\* a region is added to the track
add_region ==
  /\ Len(at_regions) < MaxRegions
  /\ \E pos \in 0 .. MaxRegionPos, len \in 1 .. MaxRegionLen :
       at_regions' = Append(at_regions,
                            [pos |-> pos, end_pos |-> pos + len,
                             clip_start_pos |-> 0, loop_start_pos |-> 0,
                             loop_end_pos |-> len,
                             muted |-> FALSE, aps |-> << >>])
  /\ at_obs' = [op |-> "none"]
  /\ UNCHANGED << at_port_val, recordingVars, nonAutomationVars >>

\* an automation point is added to a region; aps_ stays sorted by position,
\* the new point after the points of its position
add_ap ==
  /\ NumAps(at_regions) < MaxAps
  /\ \E i \in 1 .. Len(at_regions), pos \in 0 .. MaxRegionLen,
        val \in ApVals :
       LET aps == at_regions[i].aps
           n == Cardinality({k \in 1 .. Len(aps) : aps[k].pos <= pos})
           ap == [pos |-> pos, normalized_val |-> val]
       IN  at_regions' =
             [at_regions EXCEPT ![i].aps =
                SubSeq(aps, 1, n) \o << ap >> \o SubSeq(aps, n + 1, Len(aps))]
  /\ at_obs' = [op |-> "none"]
  /\ UNCHANGED << at_port_val, recordingVars, nonAutomationVars >>

\* a region is muted or unmuted
set_region_muted ==
  /\ \E i \in 1 .. Len(at_regions) :
       at_regions' = [at_regions EXCEPT ![i].muted = ~at_regions[i].muted]
  /\ at_obs' = [op |-> "none"]
  /\ UNCHANGED << at_port_val, recordingVars, nonAutomationVars >>

\* the track is evaluated at a timeline position
GetValAtPos ==
  /\ \E pos \in TimelinePositions, ends_after \in BOOLEAN :
       at_obs' = [op |-> "get_val_at_pos", pos |-> pos,
                  ends_after |-> ends_after,
                  val |-> get_val_at_pos(at_regions, at_port_val, pos,
                                         ends_after)]
  /\ UNCHANGED << at_regions, at_port_val, recordingVars, nonAutomationVars >>

\* a window test that counts a touch exactly the window ago as within it
should_be_recording_inclusive(cur_time, record_aps) ==
  IF automation_mode_ # "Record" THEN FALSE
  ELSE IF record_mode_ = "Latch" THEN TRUE
  ELSE IF cur_time - last_change_time_ <= AUTOMATION_RECORDING_TOUCH_REL_MS
    THEN TRUE
  ELSE IF ~record_aps THEN recording_started_
  ELSE FALSE

should_be_recording(cur_time, record_aps) ==
  IF automation_mode_ # "Record" THEN FALSE
  ELSE IF record_mode_ = "Latch" THEN TRUE
  ELSE IF cur_time - last_change_time_ < AUTOMATION_RECORDING_TOUCH_REL_MS
    THEN TRUE
  ELSE IF ~record_aps THEN recording_started_
  ELSE FALSE

\* AutomationTrack::should_read_automation
should_read_automation(cur_time) ==
  IF automation_mode_ = "Off" THEN FALSE
  ELSE ~should_be_recording(cur_time, FALSE)

unchangedReadVars == << at_regions, at_port_val, at_obs >>

\* the real-time clock advances
ClockTick ==
  /\ rt_now < MaxTime
  /\ rt_now' = rt_now + 1
  /\ UNCHANGED << automation_mode_, record_mode_, recording_started_,
                  last_change_time_, rec_obs, unchangedReadVars,
                  nonAutomationVars >>

\* the control of the automated port is changed by the user
TouchPort ==
  /\ last_change_time_' = rt_now
  /\ rec_obs' = [op |-> "none"]
  /\ UNCHANGED << automation_mode_, record_mode_, recording_started_, rt_now,
                  unchangedReadVars, nonAutomationVars >>

set_automation_mode ==
  /\ \E mode \in AutomationModes : automation_mode_' = mode
  /\ rec_obs' = [op |-> "none"]
  /\ UNCHANGED << record_mode_, recording_started_, last_change_time_, rt_now,
                  unchangedReadVars, nonAutomationVars >>

set_record_mode ==
  /\ \E mode \in AutomationRecordModes : record_mode_' = mode
  /\ rec_obs' = [op |-> "none"]
  /\ UNCHANGED << automation_mode_, recording_started_, last_change_time_,
                  rt_now, unchangedReadVars, nonAutomationVars >>

\* the recording of the track is started or stopped by the engine, by
\* whether automation points should be recorded now
HandleRecording ==
  /\ recording_started_' = should_be_recording(rt_now, TRUE)
  /\ rec_obs' = [op |-> "none"]
  /\ UNCHANGED << automation_mode_, record_mode_, last_change_time_, rt_now,
                  unchangedReadVars, nonAutomationVars >>

\* should_be_recording is called with the current time
ShouldBeRecording ==
  /\ \E record_aps \in BOOLEAN :
       rec_obs' = [op |-> "should_be_recording", cur_time |-> rt_now,
                   record_aps |-> record_aps,
                   result |-> should_be_recording(rt_now, record_aps),
                   reads |-> should_read_automation(rt_now)]
  /\ UNCHANGED << automation_mode_, record_mode_, recording_started_,
                  last_change_time_, rt_now, unchangedReadVars,
                  nonAutomationVars >>

(***************************************************************************)
(* ArrangerObject positions (arranger_object.cpp) of one region: pos and   *)
(* end_pos on the timeline, clip start, loop start, loop end and the fades *)
(* local to the region.  An Audio region can fade and its loop end is      *)
(* bound by the frames of its clip; a Midi region has no fades.            *)
(***************************************************************************)
PositionTypes ==
  {"Start", "End", "ClipStart", "LoopStart", "LoopEnd", "FadeIn", "FadeOut"}
RegionTypes == {"Audio", "Midi"}
\* positions handed to set_position: one before Position () and the frames
PositionInputs == (0 - 1) .. MaxRegionFrames

\* a region as created over [pos, end_pos): the loop and the fades span it
NewRegion(type, pos, end_pos, num_frames) ==
  [type |-> type, pos |-> pos, end_pos |-> end_pos,
   clip_start_pos |-> 0, loop_start_pos |-> 0, loop_end_pos |-> end_pos - pos,
   fade_in_pos |-> 0,
   fade_out_pos |-> IF type = "Audio" THEN end_pos - pos ELSE 0,
   num_frames |-> num_frames]

RegionInit ==
  /\ \E type \in RegionTypes, pos \in 0 .. MaxRegionFrames,
        end_pos \in 0 .. MaxRegionFrames :
       /\ pos < end_pos
       /\ \E num_frames \in {end_pos - pos, MaxRegionFrames} :
            region = NewRegion(type, pos, end_pos, num_frames)
  /\ region_obs = [op |-> "none"]

RegionAtRest ==
  /\ region = NewRegion("Midi", 0, 1, 1)
  /\ region_obs = [op |-> "none"]

can_fade(r) == r.type = "Audio"

is_position_valid(r, pos, pos_type) ==
  CASE pos_type = "Start" ->
         /\ pos < r.end_pos
         /\ pos >= 0
         /\ can_fade(r) => r.fade_out_pos - (pos - r.pos) > r.fade_in_pos
    [] pos_type = "LoopStart" -> pos < r.loop_end_pos /\ pos >= 0
    [] pos_type = "LoopEnd" ->
         /\ ~(pos < r.clip_start_pos \/ pos <= r.loop_start_pos)
         /\ r.type = "Audio" => pos <= r.num_frames
    [] pos_type = "ClipStart" -> pos < r.loop_end_pos /\ pos >= 0
    [] pos_type = "End" ->
         /\ can_fade(r) => r.fade_out_pos + (pos - r.end_pos) > r.fade_in_pos
         /\ pos > r.pos
    [] pos_type = "FadeIn" ->
         /\ can_fade(r)
         /\ pos >= 0 /\ pos < r.end_pos - r.pos /\ pos < r.fade_out_pos
    [] pos_type = "FadeOut" ->
         /\ can_fade(r)
         /\ pos >= 0 /\ pos <= r.end_pos - r.pos /\ pos > r.fade_in_pos

\* *get_position_ptr (pos_type) = pos
WithPosition(r, pos, pos_type) ==
  CASE pos_type = "Start" -> [r EXCEPT !.pos = pos]
    [] pos_type = "End" -> [r EXCEPT !.end_pos = pos]
    [] pos_type = "ClipStart" -> [r EXCEPT !.clip_start_pos = pos]
    [] pos_type = "LoopStart" -> [r EXCEPT !.loop_start_pos = pos]
    [] pos_type = "LoopEnd" -> [r EXCEPT !.loop_end_pos = pos]
    [] pos_type = "FadeIn" -> [r EXCEPT !.fade_in_pos = pos]
    [] pos_type = "FadeOut" -> [r EXCEPT !.fade_out_pos = pos]

\* a set_position that stores the position before it validates it
set_position_store_first(r, pos, pos_type, validate) ==
  IF pos_type \in {"FadeIn", "FadeOut"} /\ ~can_fade(r) THEN << r, FALSE >>
  ELSE IF validate /\ ~is_position_valid(r, pos, pos_type)
    THEN << WithPosition(r, pos, pos_type), FALSE >>
  ELSE << WithPosition(r, pos, pos_type), TRUE >>

\* set_position (pos, pos_type, validate): << region after, result >>
set_position(r, pos, pos_type, validate) ==
  IF validate /\ ~is_position_valid(r, pos, pos_type) THEN << r, FALSE >>
  ELSE IF pos_type \in {"FadeIn", "FadeOut"} /\ ~can_fade(r)
    THEN << r, FALSE >>
  ELSE << WithPosition(r, pos, pos_type), TRUE >>

\* a validated edit of one position of the region
SetPosition ==
  /\ \E pos \in PositionInputs, pos_type \in PositionTypes :
       LET done == set_position(region, pos, pos_type, TRUE)
       IN  /\ region' = done[1]
           /\ region_obs' = [op |-> "set_position", pos |-> pos,
                             pos_type |-> pos_type, result |-> done[2],
                             before |-> region]
  /\ UNCHANGED nonRegionVars

\* a frame of the timeline inside the region is mapped to the clip
TimelineFramesToLocal ==
  /\ \E timeline_frames \in region.pos .. (region.end_pos - 1) :
       region_obs' = [op |-> "timeline_frames_to_local",
                      timeline_frames |-> timeline_frames,
                      result |-> timeline_frames_to_local(region,
                                                          timeline_frames)]
  /\ UNCHANGED << region, nonRegionVars >>

(***************************************************************************)
(* MIDI events of a region (region.h): fill_midi_events is called for a    *)
(* block [local_start, local_start + nframes) that holds no loop wrap, and *)
(* is told whether a note off is to be added at the end of the block and   *)
(* whether that is for a loop end or the end of the region.  Events are    *)
(* (type, val, time), time an offset in the block.                         *)
(***************************************************************************)
Pitches == 1 .. MaxPitch
\* what the end of a block borders on
Boundaries == {"none", "region_loop_end", "region_end", "transport_loop_end"}

MidiInit ==
  /\ midi_notes_ = << >>
  /\ midi_obs = [op |-> "none"]

\* the notes that sound at the last frame of the block ending at block_end
\* and do not end inside it
RECURSIVE NotesAtBorder(_, _)
NotesAtBorder(notes, block_end) ==
  IF notes = << >> THEN << >>
  ELSE LET mn == Head(notes)
           rest == NotesAtBorder(Tail(notes), block_end)
       IN  IF mn.pos < block_end /\ mn.end_pos >= block_end
             THEN << mn >> \o rest
           ELSE rest

RECURSIVE NoteOffs(_, _)
NoteOffs(notes, time) ==
  IF notes = << >> THEN << >>
  ELSE << [type |-> "note_off", val |-> Head(notes).val, time |-> time] >>
         \o NoteOffs(Tail(notes), time)

\* note offs that are sent as one all notes off whatever the boundary is
send_note_offs_all_notes_off(notes, local_start, nframes_, is_note_off_for_loop_or_region_end) ==
  << [type |-> "all_notes_off", val |-> 0, time |-> nframes_ - 1] >>

\* send_note_offs: the events added at the last frame of the block
send_note_offs(notes, local_start, nframes_, is_note_off_for_loop_or_region_end) ==
  IF is_note_off_for_loop_or_region_end
    THEN NoteOffs(NotesAtBorder(notes, local_start + nframes_), nframes_ - 1)
  ELSE << [type |-> "all_notes_off", val |-> 0, time |-> nframes_ - 1] >>

\* the note ons and note offs of the notes that start or end in the block
RECURSIVE BlockEvents(_, _, _)
BlockEvents(notes, local_start, nframes_) ==
  IF notes = << >> THEN << >>
  ELSE
    LET mn == Head(notes)
        InBlock(p) == p >= local_start /\ p < local_start + nframes_
        on == IF InBlock(mn.pos)
                THEN << [type |-> "note_on", val |-> mn.val,
                         time |-> mn.pos - local_start] >>
              ELSE << >>
        off == IF InBlock(mn.end_pos)
                 THEN << [type |-> "note_off", val |-> mn.val,
                          time |-> mn.end_pos - local_start] >>
               ELSE << >>
    IN  on \o off \o BlockEvents(Tail(notes), local_start, nframes_)

\* fill_midi_events: the events queued for the block
fill_midi_events(notes, local_start, nframes_, note_off_at_end, is_note_off_for_loop_or_region_end) ==
  BlockEvents(notes, local_start, nframes_)
    \o (IF note_off_at_end
          THEN send_note_offs(notes, local_start, nframes_,
                              is_note_off_for_loop_or_region_end)
        ELSE << >>)

\* a note is added to the region
add_midi_note ==
  /\ Len(midi_notes_) < MaxNotes
  /\ \E val \in Pitches, pos \in 0 .. MaxMidiFrames,
        end_pos \in 0 .. MaxMidiFrames :
       /\ pos < end_pos
       /\ midi_notes_' = Append(midi_notes_,
                                [val |-> val, pos |-> pos,
                                 end_pos |-> end_pos])
  /\ midi_obs' = [op |-> "none"]
  /\ UNCHANGED nonMidiVars

\* the caller fills the events of one block; it asks for a note off at the
\* end when the block ends at a boundary, and says whether the boundary is
\* a loop end of the region or the end of the region
FillMidiEvents ==
  /\ \E local_start \in 0 .. MaxMidiFrames, nframes_ \in 1 .. MaxMidiFrames,
        boundary \in Boundaries :
       /\ local_start + nframes_ <= MaxMidiFrames
       /\ midi_obs' =
            [op |-> "fill_midi_events", local_start |-> local_start,
             nframes |-> nframes_, boundary |-> boundary,
             events |->
               fill_midi_events(midi_notes_, local_start, nframes_,
                                boundary # "none",
                                boundary \in {"region_loop_end",
                                              "region_end"})]
  /\ UNCHANGED << midi_notes_, nonMidiVars >>

\* the fader as it stays while another part of the program is exercised
FaderAtRest ==
  /\ FaderInit
  /\ f_kind = [type |-> "AudioChannel", passthrough |-> FALSE,
               is_master |-> FALSE, group_target |-> FALSE]

(***************************************************************************)
(* SpecEngine: the audio thread, the control thread, the driver and the    *)
(* pump, on a rolling, looping transport.                                  *)
(***************************************************************************)
OtherPartsAtRest ==
  /\ TracklistAtRest
  /\ ConnectionsInit
  /\ AutomationAtRest
  /\ RegionAtRest
  /\ MidiInit
  /\ DenormalInit
  /\ AtlInit
  /\ PianoRollInit
  /\ InitFlowInit
  /\ MoveInit
  /\ FlowDone

EngineOnLoop ==
  /\ EngineInit
  /\ backend_nframes \in BlockLengths
  /\ remaining_latency_preroll = 0
  /\ playhead = 0
  /\ is_rolling
  /\ looping
  /\ loop_start = 0
  /\ loop_end = 2

\* the engine as it stays while another part of the program is exercised
EngineAtRest ==
  /\ EngineOnLoop
  /\ backend_nframes = 1

InitEngine ==
  /\ EngineOnLoop
  /\ ChannelInit
  /\ FaderAtRest
  /\ OtherPartsAtRest

NextEngine ==
  \/ ProcessStart
  \/ ProcessPrepare
  \/ ProcessSplit
  \/ ProcessEnd
  \/ GraphMutationBegin
  \/ GraphMutationEnd
  \/ EngineSetRun(TRUE)
  \/ EngineSetRun(FALSE)
  \/ DriverPush
  \/ PumpStart
  \/ PumpAcquire
  \/ PumpHandle

SpecEngine == InitEngine /\ [][NextEngine]_vars

\* The backend keeps calling process() and every call runs to its end; a graph
\* mutation ends; the pump is called periodically by the main loop and its wait
\* for the lock is served.
FairEngine ==
  /\ WF_vars(ProcessStart)
  /\ WF_vars(ProcessPrepare)
  /\ WF_vars(ProcessSplit)
  /\ WF_vars(ProcessEnd)
  /\ WF_vars(GraphMutationEnd)
  /\ SF_vars(PumpStart)
  /\ SF_vars(PumpAcquire)
  /\ WF_vars(PumpHandle)

\* the engine set up with a block of one frame and the transport stopped:
\* the other block lengths arrive as BufferSizeChange events of the driver
InitEngineFair ==
  /\ EngineInit
  /\ backend_nframes = 1
  /\ remaining_latency_preroll = 0
  /\ playhead = 0
  /\ ~is_rolling
  /\ looping
  /\ loop_start = 0
  /\ loop_end = 2
  /\ ChannelInit
  /\ FaderAtRest
  /\ OtherPartsAtRest

SpecEngineFair == InitEngineFair /\ [][NextEngine]_vars /\ FairEngine

(***************************************************************************)
(* The project flows (project_init_flow_manager.cpp).  A flow makes a new  *)
(* project, and with it a new engine, and calls the engine in the order of *)
(* its code; the backend may call process() at any point in between.       *)
(***************************************************************************)
FlowSteps == {"init_loaded", "pre_setup", "pool_init_loaded", "setup", "recalc_graph", "run"}

\* the flow sets the run flag before the routing graph is recalculated
create_default_run_first(with_engine) ==
  IF with_engine THEN << "pre_setup", "setup", "run", "recalc_graph" >>
  ELSE << "setup" >>

\* create_default(prj, prj_dir, headless, with_engine)
create_default(with_engine) ==
  IF with_engine THEN << "pre_setup", "setup", "recalc_graph", "run" >>
  ELSE << "setup" >>

\* continue_load_from_file_after_open_backup_response(), from the point where
\* the project has been deserialized
continue_load_from_file_after_open_backup_response ==
  << "init_loaded", "pre_setup", "pool_init_loaded", "setup", "recalc_graph", "run" >>

unchangedByFlow ==
  << port_operation_lock, ev_queue, pool_in_use, processing_events,
     handled_jack_buffer_size_change, port_buf_len, sample_rate,
     remaining_latency_preroll, ctrl_pc, backend_nframes, n_pushed,
     drained_batch, handled, audioVars, transportVars, pumpVars >>

\* ProjectInitFlowManager(filename, is_template, cb): a project is loaded from
\* a file or the default project is created; its engine is a new object.
ProjectInitFlowManager ==
  /\ UNCHANGED nonFlowVars
  /\ flow_steps = << >>
  /\ audio_pc = "idle"
  /\ ctrl_pc = "idle"
  /\ pump_pc = "idle"
  /\ \/ flow_steps' = continue_load_from_file_after_open_backup_response
     \/ \E with_engine \in BOOLEAN : flow_steps' = create_default(with_engine)
  /\ run' = FALSE
  /\ pre_setup_' = FALSE
  /\ setup_' = FALSE
  /\ graph_recalculated' = FALSE
  /\ UNCHANGED unchangedByFlow

FlowAt(step) == flow_steps # << >> /\ Head(flow_steps) = step

\* transport_->init_loaded / audio_engine_->init_loaded, pool_->init_loaded:
\* an exception ends the flow (handle_err, return)
FlowInitLoaded ==
  /\ UNCHANGED nonFlowVars
  /\ FlowAt("init_loaded") \/ FlowAt("pool_init_loaded")
  /\ \E throws \in BOOLEAN :
       flow_steps' = IF throws THEN << >> ELSE Tail(flow_steps)
  /\ UNCHANGED << run, pre_setup_, setup_, graph_recalculated >>
  /\ UNCHANGED unchangedByFlow

\* engine->pre_setup ()
FlowPreSetup ==
  /\ UNCHANGED nonFlowVars
  /\ FlowAt("pre_setup")
  /\ pre_setup_' = TRUE
  /\ flow_steps' = Tail(flow_steps)
  /\ UNCHANGED << run, setup_, graph_recalculated >>
  /\ UNCHANGED unchangedByFlow

\* engine->setup ()
FlowSetup ==
  /\ UNCHANGED nonFlowVars
  /\ FlowAt("setup")
  /\ setup_' = TRUE
  /\ flow_steps' = Tail(flow_steps)
  /\ UNCHANGED << run, pre_setup_, graph_recalculated >>
  /\ UNCHANGED unchangedByFlow

\* router->recalc_graph (false): the lock is taken, ...
FlowRecalcGraphBegin ==
  /\ FlowAt("recalc_graph")
  /\ GraphMutationBegin

\* ... the graph is made and the lock is released
FlowRecalcGraphEnd ==
  /\ UNCHANGED nonFlowVars
  /\ FlowAt("recalc_graph")
  /\ ctrl_pc = "rewiring"
  /\ port_operation_lock' = port_operation_lock + 1
  /\ ctrl_pc' = "idle"
  /\ graph_recalculated' = TRUE
  /\ flow_steps' = Tail(flow_steps)
  /\ UNCHANGED << run, pre_setup_, setup_ >>
  /\ UNCHANGED << ev_queue, pool_in_use, processing_events,
                  handled_jack_buffer_size_change, port_buf_len, sample_rate,
                  remaining_latency_preroll, backend_nframes, n_pushed,
                  drained_batch, handled >>
  /\ UNCHANGED << audioVars, transportVars, pumpVars >>

\* engine->run_.store (true)
FlowSetRun ==
  /\ UNCHANGED nonFlowVars
  /\ FlowAt("run")
  /\ run' = TRUE
  /\ flow_steps' = Tail(flow_steps)
  /\ UNCHANGED << pre_setup_, setup_, graph_recalculated >>
  /\ UNCHANGED unchangedByFlow

(***************************************************************************)
(* SpecFlow: projects are created and loaded one after the other while the *)
(* backend calls process().                                                *)
(***************************************************************************)
InitFlow ==
  /\ EngineAtRest
  /\ ChannelInit
  /\ FaderAtRest
  /\ TracklistAtRest
  /\ ConnectionsInit
  /\ AutomationAtRest
  /\ RegionAtRest
  /\ MidiInit
  /\ DenormalInit
  /\ AtlInit
  /\ PianoRollInit
  /\ InitFlowInit
  /\ MoveInit
  /\ FlowInit

NextFlow ==
  \/ ProjectInitFlowManager
  \/ FlowInitLoaded
  \/ FlowPreSetup
  \/ FlowSetup
  \/ FlowRecalcGraphBegin
  \/ FlowRecalcGraphEnd
  \/ FlowSetRun
  \/ ProcessStart
  \/ ProcessPrepare
  \/ ProcessSplit
  \/ ProcessEnd

SpecFlow == InitFlow /\ [][NextFlow]_vars

(***************************************************************************)
(* SpecCycle: the process() call alone, over every transport setting.      *)
(***************************************************************************)
NextCycle ==
  \/ ProcessStart
  \/ ProcessPrepare
  \/ ProcessSplit
  \/ ProcessEnd
  \/ EngineSetRun(TRUE)
  \/ EngineSetRun(FALSE)

InitCycle ==
  /\ EngineInit
  /\ ChannelInit
  /\ FaderAtRest
  /\ OtherPartsAtRest

SpecCycle == InitCycle /\ [][NextCycle]_vars

(***************************************************************************)
(* SpecChannel: plugins are added to and removed from the strip of one     *)
(* channel while the engine is at rest.                                    *)
(***************************************************************************)
InitChannel ==
  /\ EngineAtRest
  /\ ChannelInit
  /\ FaderAtRest
  /\ OtherPartsAtRest

NextChannel ==
  \/ AddPlugin
  \/ RemovePlugin

SpecChannel == InitChannel /\ [][NextChannel]_vars

(***************************************************************************)
(* The automation modes of the automation tracks of one tracklist          *)
(* (automation_track.cpp).  set_automation_mode is the setter of the       *)
(* program, setAutomationMode the setter of the automationMode property.   *)
(***************************************************************************)
AutomationTracks == DOMAIN ats_automation_mode_

InRecordModeCache(at) ==
  \E i \in 1 .. Len(ats_in_record_mode_) : ats_in_record_mode_[i] = at

\* AutomationTrack::set_automation_mode (mode, fire_events)
AtSetAutomationMode(at, mode) ==
  /\ ats_in_record_mode_' =
       IF mode = "Record" /\ ~InRecordModeCache(at)
         THEN Append(ats_in_record_mode_, at)
         ELSE ats_in_record_mode_
  /\ ats_automation_mode_' = [ats_automation_mode_ EXCEPT ![at] = mode]

\* AutomationTrack::setAutomationMode (automation_mode)
setAutomationMode(at, automation_mode) ==
  /\ automation_mode # ats_automation_mode_[at]
  /\ ats_automation_mode_' =
       [ats_automation_mode_ EXCEPT ![at] = automation_mode]
  /\ UNCHANGED ats_in_record_mode_

nonAtlVars ==
  << engineVars, channelVars, faderVars, projectVars, denormalVars,
     pianoRollVars,
     initFlowVars,
     moveVars, flowVars >>

SetAutomationModeOfTrack ==
  /\ \E at \in AutomationTracks, mode \in AutomationModes :
       AtSetAutomationMode(at, mode)
  /\ UNCHANGED nonAtlVars

SetAutomationModeProperty ==
  /\ \E at \in AutomationTracks, mode \in AutomationModes :
       setAutomationMode(at, mode)
  /\ UNCHANGED nonAtlVars

InitAtl ==
  /\ EngineAtRest
  /\ ChannelInit
  /\ FaderAtRest
  /\ OtherPartsAtRest

NextAtl ==
  \/ SetAutomationModeOfTrack
  \/ SetAutomationModeProperty

SpecAtl == InitAtl /\ [][NextAtl]_vars

(***************************************************************************)
(* The current notes of the piano roll (piano_roll.cpp).                   *)
(***************************************************************************)
\* std::ranges::find (current_notes_, note) != current_notes_.end ()
contains_current_note(notes, note) ==
  \E i \in 1 .. Len(notes) : notes[i] = note

\* add_current_note (note): the list after the call
add_current_note(notes, note) ==
  IF contains_current_note(notes, note) THEN Append(notes, note) ELSE notes

\* remove_current_note (note): the first entry found is erased
remove_current_note(notes, note) ==
  IF contains_current_note(notes, note)
    THEN LET it == CHOOSE i \in 1 .. Len(notes) :
                     /\ notes[i] = note
                     /\ \A j \in 1 .. (i - 1) : notes[j] # note
         IN  SubSeq(notes, 1, it - 1) \o SubSeq(notes, it + 1, Len(notes))
    ELSE notes

nonPianoRollVars ==
  << engineVars, channelVars, faderVars, projectVars, denormalVars, atlVars,
     initFlowVars,
     moveVars, flowVars >>

AddCurrentNote ==
  /\ \E note \in 0 .. MaxNote :
       /\ current_notes_' = add_current_note(current_notes_, note)
       /\ piano_roll_obs' = [op |-> "add_current_note", note |-> note]
  /\ UNCHANGED nonPianoRollVars

RemoveCurrentNote ==
  /\ \E note \in 0 .. MaxNote :
       /\ current_notes_' = remove_current_note(current_notes_, note)
       /\ piano_roll_obs' = [op |-> "remove_current_note", note |-> note]
  /\ UNCHANGED nonPianoRollVars

ContainsCurrentNote ==
  /\ \E note \in 0 .. MaxNote :
       piano_roll_obs' =
         [op |-> "contains_current_note", note |-> note,
          result |-> contains_current_note(current_notes_, note)]
  /\ UNCHANGED << current_notes_, nonPianoRollVars >>

InitPianoRoll ==
  /\ EngineAtRest
  /\ ChannelInit
  /\ FaderAtRest
  /\ OtherPartsAtRest

NextPianoRoll ==
  \/ AddCurrentNote
  \/ RemoveCurrentNote
  \/ ContainsCurrentNote

SpecPianoRoll == InitPianoRoll /\ [][NextPianoRoll]_vars

(***************************************************************************)
(* The callbacks of a ProjectInitFlowManager                               *)
(* (project_init_flow_manager.cpp).  The constructor appends the caller's  *)
(* callback cb and runs the flow to its end; a callback is invoked from    *)
(* inside the step that calls call_last_callback.  m is the manager's      *)
(* callbacks_ with the record of what was appended and invoked.            *)
(***************************************************************************)
\* append_callback (cb, user_data)
append_callback(m, cb) ==
  [m EXCEPT !.callbacks_ = Append(@, cb), !.appended = Append(@, cb)]

RECURSIVE call_last_callback(_, _, _)

call_last_callback_fail(m, save_throws) ==
  call_last_callback(m, FALSE, save_throws)

call_last_callback_success(m, save_throws) ==
  call_last_callback(m, TRUE, save_throws)

\* PROJECT->save is called for a template or a new project and may throw
save_and_activate_after_successful_load_or_create(m, save_throws) ==
  IF (init_in.is_template \/ init_in.filename_empty) /\ save_throws
    THEN call_last_callback_fail(m, save_throws)
    ELSE call_last_callback_success(m, save_throws)

load_from_file_ready_cb(m, success, save_throws) ==
  IF ~success THEN call_last_callback_fail(m, save_throws)
  ELSE save_and_activate_after_successful_load_or_create(m, save_throws)

\* cb = callbacks_.back (); callbacks_.pop_back (); cb.first (success, ...):
\* back () of an empty vector is undefined
call_last_callback(m, success, save_throws) ==
  IF m.callbacks_ = << >>
    THEN [m EXCEPT !.calls = Append(@, [cb |-> "undefined", success |-> success])]
  ELSE LET cb == m.callbacks_[Len(m.callbacks_)]
           popped == [m EXCEPT !.callbacks_ = SubSeq(@, 1, Len(@) - 1),
                               !.calls = Append(@, [cb |-> cb, success |-> success])]
       IN  IF cb = "load_from_file_ready_cb"
             THEN load_from_file_ready_cb(popped, success, save_throws)
             ELSE popped

\* the steps of continue_load_from_file_after_open_backup_response () that
\* can fail, in the order of the code
ContinueLoadSteps(is_template, use_backup) ==
  << "get_existing_uncompressed_text", "read_json", "deserialize", "finished_file" >>
  \o (IF is_template THEN << "copy_template_dirs" >> ELSE << >>)
  \o (IF use_backup THEN << "copy_backup_plugin_states" >> ELSE << >>)
  \o << "init_loaded", "pool_init_loaded", "call_last_callback_success" >>

\* the steps whose failure is reported by call_last_callback_fail
StepsThatFailTheCallback ==
  {"get_existing_uncompressed_text", "read_json", "deserialize", "finished_file", "copy_template_dirs", "copy_backup_plugin_states", "create_default"}

Manager == [callbacks_ |-> callbacks_, appended |-> appended_callbacks, calls |-> cb_calls]

SetManager(m) ==
  /\ callbacks_' = m.callbacks_
  /\ appended_callbacks' = m.appended
  /\ cb_calls' = m.calls

nonInitFlowVars ==
  << engineVars, channelVars, faderVars, projectVars, denormalVars, atlVars, pianoRollVars,
     moveVars, flowVars >>

\* ProjectInitFlowManager (filename, is_template, cb, user_data), up to the
\* call of load_from_file () or create_default ()
InitFlowConstruct ==
  /\ init_todo = << >>
  /\ \E filename_empty, is_template, newer_backup, testing, open_newer_backup_ \in BOOLEAN :
       /\ init_in' = [constructed |-> TRUE, filename_empty |-> filename_empty,
                      is_template |-> is_template, newer_backup |-> newer_backup,
                      testing |-> testing, open_newer_backup_ |-> open_newer_backup_]
       /\ LET fresh == [callbacks_ |-> << >>, appended |-> << >>, calls |-> << >>]
              m == append_callback(fresh, "cb")
          IN  IF ~filename_empty
                THEN /\ SetManager(append_callback(m, "load_from_file_ready_cb"))
                     /\ init_todo' = << "load_from_file" >>
                ELSE /\ SetManager(m)
                     /\ init_todo' = << "create_default" >>
  /\ UNCHANGED nonInitFlowVars

InitFlowAt(step) == init_todo # << >> /\ Head(init_todo) = step

\* load_from_file (): a newer backup of a project is asked about in a dialog
\* (compiled out) unless the program is under test
InitFlowLoadFromFile ==
  /\ InitFlowAt("load_from_file")
  /\ LET found == ~init_in.is_template /\ init_in.newer_backup
         use_backup == found /\ init_in.testing /\ init_in.open_newer_backup_
     IN  init_todo' = IF found /\ ~init_in.testing THEN << >>
                      ELSE ContinueLoadSteps(init_in.is_template, use_backup)
  /\ UNCHANGED << callbacks_, appended_callbacks, cb_calls, init_in >>
  /\ UNCHANGED nonInitFlowVars

\* a step that ends the flow with call_last_callback_fail when it throws
InitFlowStep ==
  /\ init_todo # << >>
  /\ Head(init_todo) \in StepsThatFailTheCallback \ {"create_default"}
  /\ \E throws, save_throws \in BOOLEAN :
       IF throws
         THEN /\ SetManager(call_last_callback_fail(Manager, save_throws))
              /\ init_todo' = << >>
         ELSE /\ init_todo' = Tail(init_todo)
              /\ UNCHANGED << callbacks_, appended_callbacks, cb_calls >>
  /\ UNCHANGED init_in
  /\ UNCHANGED nonInitFlowVars

\* transport_->init_loaded / audio_engine_->init_loaded, pool_->init_loaded:
\* catch (...) { handle_err (e); return; }
InitFlowInitLoaded ==
  /\ InitFlowAt("init_loaded") \/ InitFlowAt("pool_init_loaded")
  /\ \E throws \in BOOLEAN :
       init_todo' = IF throws THEN << >> ELSE Tail(init_todo)
  /\ UNCHANGED << callbacks_, appended_callbacks, cb_calls, init_in >>
  /\ UNCHANGED nonInitFlowVars

\* the end of continue_load_from_file_after_open_backup_response ()
InitFlowLoaded ==
  /\ InitFlowAt("call_last_callback_success")
  /\ \E save_throws \in BOOLEAN :
       SetManager(call_last_callback_success(Manager, save_throws))
  /\ init_todo' = << >>
  /\ UNCHANGED init_in
  /\ UNCHANGED nonInitFlowVars

\* the constructor without a filename: create_default, then
\* save_and_activate_after_successful_load_or_create
InitFlowCreateDefault ==
  /\ InitFlowAt("create_default")
  /\ \E throws, save_throws \in BOOLEAN :
       SetManager(IF throws THEN call_last_callback_fail(Manager, save_throws)
                  ELSE save_and_activate_after_successful_load_or_create(Manager, save_throws))
  /\ init_todo' = << >>
  /\ UNCHANGED init_in
  /\ UNCHANGED nonInitFlowVars

InitInitFlow ==
  /\ EngineAtRest
  /\ ChannelInit
  /\ FaderAtRest
  /\ OtherPartsAtRest

NextInitFlow ==
  \/ InitFlowConstruct
  \/ InitFlowLoadFromFile
  \/ InitFlowStep
  \/ InitFlowInitLoaded
  \/ InitFlowLoaded
  \/ InitFlowCreateDefault

SpecInitFlow == InitInitFlow /\ [][NextInitFlow]_vars

(***************************************************************************)
(* Move actions on arranger selections (actions/arranger_selections.cpp,   *)
(* arranger_object.cpp).  A selection holds objects of one type; an object *)
(* has a position in ticks and, by its type, an end position, a track and  *)
(* a lane, a pitch, a chord index or a normalized automation value.  All   *)
(* quantities are integers.                                                *)
(***************************************************************************)
ArrangerObjectTypes == {"Region", "MidiNote", "ChordObject", "AutomationPoint"}

type_has_length(type) == type \in {"Region", "MidiNote"}

NewArrangerObject(type, pos, level) ==
  [type |-> type, pos |-> pos,
   end_pos |-> IF type_has_length(type) THEN pos + 1 ELSE pos,
   track |-> IF type = "Region" THEN level ELSE 0,
   lane |-> IF type = "Region" THEN level ELSE 0,
   pitch |-> IF type = "MidiNote" THEN level ELSE 0,
   chord_index |-> IF type = "ChordObject" THEN level ELSE 0,
   normalized_val |-> IF type = "AutomationPoint" THEN level ELSE 0]

\* ArrangerObject::move (ticks)
move(o, ticks) ==
  IF type_has_length(o.type)
    THEN LET length == o.end_pos - o.pos
             tmp == o.pos + ticks
         IN  [o EXCEPT !.pos = tmp,
                       !.end_pos = IF o.type = "Region" THEN tmp + length
                                   ELSE o.end_pos + ticks]
    ELSE [o EXCEPT !.pos = o.pos + ticks]

\* the body of the loop of do_or_undo_move for one object, with the deltas
\* of the direction taken
MoveObject(o, d) ==
  LET o1 == IF d.ticks # 0 THEN move(o, d.ticks) ELSE o
      o2 == IF d.delta_tracks # 0 THEN [o1 EXCEPT !.track = @ + d.delta_tracks] ELSE o1
      o3 == IF d.delta_pitch # 0 THEN [o2 EXCEPT !.pitch = @ + d.delta_pitch] ELSE o2
      o4 == IF d.delta_lanes # 0 THEN [o3 EXCEPT !.lane = @ + d.delta_lanes] ELSE o3
      o5 == IF d.delta_chords # 0 THEN [o4 EXCEPT !.chord_index = @ + d.delta_chords] ELSE o4
  IN  IF d.delta_normalized_amount # 0 /\ o5.type = "AutomationPoint"
        THEN [o5 EXCEPT !.normalized_val = @ + d.delta_normalized_amount]
        ELSE o5

MoveObjects(objs, d) == [i \in 1 .. Len(objs) |-> MoveObject(objs[i], d)]

Deltas(a, do) ==
  LET sign == IF do THEN 1 ELSE 0 - 1
  IN  [ticks |-> sign * a.ticks, delta_tracks |-> sign * a.delta_tracks,
       delta_lanes |-> sign * a.delta_lanes,
       delta_chords |-> sign * a.delta_chords,
       delta_pitch |-> sign * a.delta_pitch,
       delta_normalized_amount |-> sign * a.delta_normalized_amount]

\* a move that is made on every run, the first included
do_or_undo_move_every_run(a, objs, do) ==
  << [a EXCEPT !.first_run = FALSE, !.sel = MoveObjects(a.sel, Deltas(a, do))],
     MoveObjects(objs, Deltas(a, do)) >>

\* do_or_undo_move (self, _do): << the action after, the objects after >>
do_or_undo_move(a, objs, do) ==
  IF ~a.first_run
    THEN << [a EXCEPT !.first_run = FALSE,
                      !.sel = MoveObjects(a.sel, Deltas(a, do))],
            MoveObjects(objs, Deltas(a, do)) >>
    ELSE << [a EXCEPT !.first_run = FALSE], objs >>

\* arranger_selections_action_new_move_or_duplicate (sel, move = true, ...)
arranger_selections_action_new_move(sel, d, already_moved) ==
  [type |-> "AS_ACTION_MOVE", sel |-> sel, first_run |-> already_moved,
   already_moved |-> already_moved, ticks |-> d.ticks,
   delta_chords |-> d.delta_chords, delta_lanes |-> d.delta_lanes,
   delta_tracks |-> d.delta_tracks, delta_pitch |-> d.delta_pitch,
   delta_normalized_amount |-> d.delta_normalized_amount]

MoveValues == 0 .. MaxMoveVal
MoveDeltas == (0 - MaxMoveDelta) .. MaxMoveDelta

\* the deltas a move of a selection of the type can have
DeltasFor(type, ticks, q1, q2) ==
  [ticks |-> ticks,
   delta_tracks |-> IF type = "Region" THEN q1 ELSE 0,
   delta_lanes |-> IF type = "Region" THEN q2 ELSE 0,
   delta_pitch |-> IF type = "MidiNote" THEN q1 ELSE 0,
   delta_chords |-> IF type = "ChordObject" THEN q1 ELSE 0,
   delta_normalized_amount |-> IF type = "AutomationPoint" THEN q1 ELSE 0]

\* the objects are where objects of the project can be
InProject(objs) ==
  \A i \in 1 .. Len(objs) :
    /\ objs[i].pos \in MoveValues
    /\ objs[i].track \in MoveValues
    /\ objs[i].lane \in MoveValues
    /\ objs[i].pitch \in MoveValues
    /\ objs[i].chord_index \in MoveValues
    /\ objs[i].normalized_val \in MoveValues

nonMoveVars ==
  << engineVars, channelVars, faderVars, projectVars, denormalVars, atlVars, pianoRollVars, initFlowVars, flowVars >>

\* objects of one type are selected
SelectObjects ==
  /\ \E type \in ArrangerObjectTypes, pos1, pos2, level \in MoveValues :
       arr_objs' = << NewArrangerObject(type, pos1, level),
                      NewArrangerObject(type, pos2, MaxMoveVal - level) >>
  /\ move_action' = [type |-> "none"]
  /\ move_obs' = [stage |-> "none"]
  /\ UNCHANGED nonMoveVars

\* a move action is created for the selection: with already_moved the
\* objects have been moved by the deltas before (a drag in the arranger),
\* and the action holds clones of the moved objects
CreateMoveAction ==
  /\ arr_objs # << >>
  /\ move_obs.stage # "created"
  /\ \E ticks, q1, q2 \in MoveDeltas, already_moved \in BOOLEAN :
       LET d == DeltasFor(arr_objs[1].type, ticks, q1, q2)
           moved == MoveObjects(arr_objs, d)
           now == IF already_moved THEN moved ELSE arr_objs
       IN  /\ InProject(moved)
           /\ moved # arr_objs
           /\ arr_objs' = now
           /\ move_action' = arranger_selections_action_new_move(now, d, already_moved)
           /\ move_obs' = [stage |-> "created", before |-> arr_objs,
                           moved |-> moved, runs |-> 0]
  /\ UNCHANGED nonMoveVars

\* arranger_selections_action_do: the action is performed or redone
DoMove ==
  /\ move_obs.stage \in {"created", "undone"}
  /\ LET done == do_or_undo_move(move_action, arr_objs, TRUE)
     IN  /\ move_action' = done[1]
         /\ arr_objs' = done[2]
  /\ move_obs' = [move_obs EXCEPT !.stage = "done",
                                  !.runs = Min(@ + 1, MaxMoveRuns)]
  /\ UNCHANGED nonMoveVars

\* arranger_selections_action_undo
UndoMove ==
  /\ move_obs.stage = "done"
  /\ LET undone == do_or_undo_move(move_action, arr_objs, FALSE)
     IN  /\ move_action' = undone[1]
         /\ arr_objs' = undone[2]
  /\ move_obs' = [move_obs EXCEPT !.stage = "undone",
                                  !.runs = Min(@ + 1, MaxMoveRuns)]
  /\ UNCHANGED nonMoveVars

InitMove ==
  /\ EngineAtRest
  /\ ChannelInit
  /\ FaderAtRest
  /\ OtherPartsAtRest

NextMove ==
  \/ SelectObjects
  \/ CreateMoveAction
  \/ DoMove
  \/ UndoMove

SpecMove == InitMove /\ [][NextMove]_vars

(***************************************************************************)
(* SpecEvents: the event queue and the pump alone.  The driver pushes a    *)
(* batch of up to ENGINE_MAX_EVENTS events, then the pump runs: every push *)
(* is either a new event (a BufferSizeChange with an argument not pushed   *)
(* before) or, among the first pushes, repeats the event pushed last.      *)
(***************************************************************************)
EventsPushFresh ==
  /\ UNCHANGED nonEngineVars
  /\ pump_pc = "idle"
  /\ drained_batch = << >>
  /\ n_pushed < ENGINE_MAX_EVENTS
  /\ ENGINE_EVENTS_PUSH(BufferSizeChangeEvent(n_pushed + 1))
  /\ handled_jack_buffer_size_change' = FALSE
  /\ backend_nframes' = n_pushed + 1
  /\ n_pushed' = n_pushed + 1
  /\ UNCHANGED << port_operation_lock, run, processing_events, port_buf_len,
                  sample_rate, remaining_latency_preroll, ctrl_pc >>
  /\ UNCHANGED << audioVars, transportVars, pumpVars >>

EventsPushRepeat ==
  /\ UNCHANGED nonEngineVars
  /\ pump_pc = "idle"
  /\ drained_batch = << >>
  /\ n_pushed < MaxRepeatPos
  /\ ev_queue # << >>
  /\ ENGINE_EVENTS_PUSH(ev_queue[Len(ev_queue)])
  /\ handled_jack_buffer_size_change' = FALSE
  /\ n_pushed' = n_pushed + 1
  /\ UNCHANGED << port_operation_lock, run, processing_events, port_buf_len,
                  sample_rate, remaining_latency_preroll, ctrl_pc,
                  backend_nframes >>
  /\ UNCHANGED << audioVars, transportVars, pumpVars >>

NextEvents ==
  \/ EventsPushFresh
  \/ EventsPushRepeat
  \/ PumpStart
  \/ PumpAcquire
  \/ PumpHandle

InitEvents ==
  /\ EngineAtRest
  /\ ChannelInit
  /\ FaderAtRest
  /\ OtherPartsAtRest

(***************************************************************************)
(* SpecFader: one fader of any kind processes block after block, its       *)
(* inputs and the mute level changing between the blocks.                  *)
(***************************************************************************)
InitFader ==
  /\ EngineAtRest
  /\ ChannelInit
  /\ FaderInit
  /\ OtherPartsAtRest

NextFader ==
  \/ ProcessBlock
  \/ SetInput
  \/ SetMuteAmp

SpecFader == InitFader /\ [][NextFader]_vars

(***************************************************************************)
(* SpecSignal: one fader of any kind processes block after block, its      *)
(* signal settings and its mute port changing between the blocks.          *)
(***************************************************************************)
InitSignal ==
  /\ EngineAtRest
  /\ ChannelInit
  /\ FaderInit
  /\ f_kind.group_target = f_kind.is_master
  /\ OtherPartsAtRest

NextSignal ==
  \/ ProcessBlock
  \/ SetSignal
  \/ SetMuted

SpecSignal == InitSignal /\ [][NextSignal]_vars

(***************************************************************************)
(* SpecSolo: a tracklist with any output routing; solo ports are toggled.  *)
(***************************************************************************)
InitSolo ==
  /\ EngineAtRest
  /\ ChannelInit
  /\ FaderAtRest
  /\ TracklistInit
  /\ ConnectionsInit
  /\ AutomationAtRest
  /\ RegionAtRest
  /\ MidiInit
  /\ DenormalInit
  /\ AtlInit
  /\ PianoRollInit
  /\ InitFlowInit
  /\ MoveInit
  /\ FlowDone

NextSolo == SetSoloed

SpecSolo == InitSolo /\ [][NextSolo]_vars

(***************************************************************************)
(* SpecConnections: port connection actions are performed one after the    *)
(* other.                                                                  *)
(***************************************************************************)
InitConnections ==
  /\ EngineAtRest
  /\ ChannelInit
  /\ FaderAtRest
  /\ TracklistAtRest
  /\ ConnectionsInit
  /\ AutomationAtRest
  /\ RegionAtRest
  /\ MidiInit
  /\ DenormalInit
  /\ AtlInit
  /\ PianoRollInit
  /\ InitFlowInit
  /\ MoveInit
  /\ FlowDone

NextConnections == PerformPortConnectionAction

SpecConnections == InitConnections /\ [][NextConnections]_vars

(***************************************************************************)
(* SpecAutomation: an automation track is filled with regions and points   *)
(* and read at timeline positions.                                         *)
(***************************************************************************)
InitAutomation ==
  /\ EngineAtRest
  /\ ChannelInit
  /\ FaderAtRest
  /\ TracklistAtRest
  /\ ConnectionsInit
  /\ AutomationInit
  /\ RegionAtRest
  /\ MidiInit
  /\ DenormalInit
  /\ AtlInit
  /\ PianoRollInit
  /\ InitFlowInit
  /\ MoveInit
  /\ FlowDone

NextAutomation ==
  \/ add_region
  \/ add_ap
  \/ set_region_muted
  \/ GetValAtPos

SpecAutomation == InitAutomation /\ [][NextAutomation]_vars

(***************************************************************************)
(* SpecRecording: the automated port is touched, the modes of the track    *)
(* are changed, time passes, and the track is asked whether it records.    *)
(***************************************************************************)
InitRecording ==
  /\ EngineAtRest
  /\ ChannelInit
  /\ FaderAtRest
  /\ OtherPartsAtRest

NextRecording ==
  \/ ClockTick
  \/ TouchPort
  \/ set_automation_mode
  \/ set_record_mode
  \/ HandleRecording
  \/ ShouldBeRecording

SpecRecording == InitRecording /\ [][NextRecording]_vars

(***************************************************************************)
(* SpecRegion: the positions of a region are edited with validation, and   *)
(* timeline frames inside the region are mapped to the clip.               *)
(***************************************************************************)
InitRegion ==
  /\ EngineAtRest
  /\ ChannelInit
  /\ FaderAtRest
  /\ TracklistAtRest
  /\ ConnectionsInit
  /\ AutomationAtRest
  /\ RegionInit
  /\ MidiInit
  /\ DenormalInit
  /\ AtlInit
  /\ PianoRollInit
  /\ InitFlowInit
  /\ MoveInit
  /\ FlowDone

NextRegion ==
  \/ SetPosition
  \/ TimelineFramesToLocal

SpecRegion == InitRegion /\ [][NextRegion]_vars

(***************************************************************************)
(* SpecMidi: notes are added to a MIDI region and the events of blocks of  *)
(* the region are filled.                                                  *)
(***************************************************************************)
InitMidi ==
  /\ EngineAtRest
  /\ ChannelInit
  /\ FaderAtRest
  /\ OtherPartsAtRest

NextMidi ==
  \/ add_midi_note
  \/ FillMidiEvents

SpecMidi == InitMidi /\ [][NextMidi]_vars

SpecEvents == InitEvents /\ [][NextEvents]_vars

(***************************************************************************)
(* Properties of the engine cycle.                                         *)
(***************************************************************************)
AudioHoldsLock == acquired
MutatorHoldsLock == ctrl_pc = "rewiring"
PumpHoldsLock == pump_pc = "handling"
ControlHoldsLock == MutatorHoldsLock \/ PumpHoldsLock

Holders ==
  (IF AudioHoldsLock THEN 1 ELSE 0) + (IF MutatorHoldsLock THEN 1 ELSE 0)
    + (IF PumpHoldsLock THEN 1 ELSE 0)

\* C1: at any time at most one party holds port_operation_lock; an audio
\* cycle that holds it never overlaps a graph mutation or the pump's
\* reallocation; the count of the semaphore is always 0 or 1.
C1_MutualExclusion ==
  /\ port_operation_lock \in {0, 1}
  /\ Holders <= 1
  /\ Holders + port_operation_lock = 1
  /\ ~(audio_pc = "loop" /\ ControlHoldsLock)

\* the audio cycle runs while the pump waits for the lock
C1_Witness ==
  /\ audio_pc = "loop"
  /\ AudioHoldsLock
  /\ pump_pc = "wait_lock"
  /\ port_operation_lock = 0

ObservedSkip ==
  /\ obs.decided
  /\ \/ ~obs.acquired
     \/ ~obs.run
     \/ ~obs.queue_empty
     \/ obs.processing_events

\* C2: a process() call that failed to take the lock, or saw run false, a
\* non-empty event queue or processing_events set, only clears the output
\* buffers: no sub-block is processed and the playhead does not move.
C2_SkipOnlyClears ==
  ObservedSkip =>
    /\ audio_pc = "idle"
    /\ out_buf = "silence"
    /\ out_frames = nframes
    /\ nodes_processed = 0
    /\ splits = << >>
    /\ playhead = playhead_at_start

\* a call that held the lock with run set, skipped for the queued events
C2_Witness ==
  /\ obs.decided
  /\ obs.acquired
  /\ obs.run
  /\ ~obs.queue_empty
  /\ out_buf = "silence"

\* C4: the audio thread never waits for port_operation_lock: a process()
\* call can always begin and go on, and a call that met the lock held by the
\* control thread has returned silence.
C4_AudioNeverWaits ==
  /\ audio_pc = "idle" => ENABLED ProcessStart
  /\ audio_pc = "prepare" => ENABLED ProcessPrepare
  /\ audio_pc = "loop" => ENABLED (ProcessSplit \/ ProcessEnd)
  /\ (obs.decided /\ ~obs.acquired) =>
       /\ audio_pc = "idle"
       /\ out_buf = "silence"
       /\ nodes_processed = 0

\* a call returned silence while the control thread still holds the lock
C4_Witness ==
  /\ obs.decided
  /\ ~obs.acquired
  /\ out_buf = "silence"
  /\ audio_pc = "idle"
  /\ ControlHoldsLock

BufferSizeChangePending ==
  \E i \in 1 .. Len(ev_queue) : ev_queue[i].type = "BufferSizeChange"

BuffersMatchDrained ==
  (audio_pc = "loop" /\ expected_len # 0) =>
    \A p \in AudioPorts : port_buf_len[p] = expected_len

SplitEnd(i) == splits[i][1] + splits[i][2]

\* C6: in a processed cycle every sub-block has at least one frame, the
\* sub-blocks are contiguous from offset 0, the loop ends, and the lengths sum
\* to nframes.
C6_SubBlocks ==
  /\ \A i \in 1 .. Len(splits) :
       /\ splits[i][2] >= 1
       /\ splits[i][1] = IF i = 1 THEN 0 ELSE SplitEnd(i - 1)
  /\ Len(splits) <= nframes
  /\ audio_pc = "loop" =>
       /\ remaining >= 0
       /\ offset + remaining = nframes
       /\ offset = IF splits = << >> THEN 0 ELSE SplitEnd(Len(splits))
       /\ ENABLED (ProcessSplit \/ ProcessEnd)
  /\ out_buf = "filled" =>
       /\ splits # << >>
       /\ SplitEnd(Len(splits)) = nframes
       /\ out_frames = nframes

\* a processed cycle split at a loop boundary into three sub-blocks
C6_Witness ==
  /\ out_buf = "filled"
  /\ Len(splits) >= 3
  /\ nframes >= 3

PumpRunDone == pump_pc = "idle" /\ drained_batch # << >>

\* C3: after N <= ENGINE_MAX_EVENTS pushes, one pump run drains exactly the N
\* entries and loses no event: every pushed event was handled or is a
\* duplicate of a handled one.
C3_NoEventLost ==
  PumpRunDone =>
    /\ ev_queue = << >>
    /\ Len(drained_batch) <= ENGINE_MAX_EVENTS
    /\ \A i \in 1 .. Len(drained_batch) :
         \E j \in 1 .. Len(handled) : handled[j] = drained_batch[i]

\* C7: after any sequence of connect / disconnect operations, the rewiring of
\* add_plugin and remove_plugin included, the connection graph is acyclic.
C7_Acyclic == Acyclic(conns)

(***************************************************************************)
(* Properties of the fader.                                                *)
(***************************************************************************)
OthersSoloed ==
  f_in.ancestor_soloed \/ f_in.child_soloed \/ f_in.other_soloed

\* C8: a non-passthrough channel fader (audio or MIDI) is effectively muted in
\* a block exactly when: mute, or another track is soloed and this fader is
\* neither soloed nor implied-soloed, or the engine is bouncing and the
\* track's bounce flag is off and the track is not master.
C8_EffectivelyMuted ==
  (blk.ran /\ blk.fresh /\ IsChannelFader(f_kind.type) /\ ~f_kind.passthrough)
    => (blk.effectively_muted <=>
          \/ f_in.mute
          \/ (OthersSoloed /\ ~f_in.solo /\ ~get_implied_soloed(f_kind, f_in))
          \/ (f_in.bounce_on /\ ~f_in.track_bounce /\ ~f_kind.is_master))

MuteTransition == blk.ran /\ blk.effectively_muted # blk.was

ExpectedFade == IF blk.effectively_muted THEN "fade_out" ELSE "fade_in"

\* C9 as stated: whenever the effectively-muted state of a fader differs from
\* the one of the previous block, a fade is armed in the block (fade-out on
\* unmuted to muted, fade-in on muted to unmuted), of
\* FADER_DEFAULT_FADE_FRAMES for the monitor fader and of
\* FADER_DEFAULT_FADE_FRAMES_SHORT for every other fader.
C9_FadeArmedOnTransition ==
  MuteTransition =>
    /\ blk.armed = ExpectedFade
    /\ blk.armed_frames = IF f_kind.type = "Monitor"
                            THEN FADER_DEFAULT_FADE_FRAMES
                            ELSE FADER_DEFAULT_FADE_FRAMES_SHORT

ArmsFades == f_kind.type \in {"AudioChannel", "SampleProcessor"}

\* C9 amended: an AudioChannel or SampleProcessor fader whose
\* effectively-muted state differs from the one of the previous block arms a
\* fade of FADER_DEFAULT_FADE_FRAMES_SHORT in the block (fade-out with
\* fading_out set on unmuted to muted, fade-in with fading_out cleared on
\* muted to unmuted) and arms none in any other block; the monitor fader and
\* MIDI faders never arm a fade on a mute transition.
C9_FadeArmedAudio ==
  blk.ran =>
    IF ArmsFades /\ MuteTransition
      THEN /\ blk.armed = ExpectedFade
           /\ blk.armed_frames = FADER_DEFAULT_FADE_FRAMES_SHORT
           /\ blk.effectively_muted =>
                (blk.fading_out /\ blk.fade_out = FADER_DEFAULT_FADE_FRAMES_SHORT)
           /\ ~blk.effectively_muted =>
                (~blk.fading_out /\ blk.fade_in = FADER_DEFAULT_FADE_FRAMES_SHORT)
      ELSE /\ blk.armed = "none"
           /\ ~ArmsFades =>
                (fade_in_samples = 0 /\ fade_out_samples = 0 /\ ~fading_out)

\* an audio channel fader was unmuted and armed a fade-in
C9_Witness ==
  /\ blk.ran
  /\ f_kind.type = "AudioChannel"
  /\ blk.was
  /\ ~blk.effectively_muted
  /\ blk.armed = "fade_in"

\* g <= m / AmpDen, g >= m / AmpDen, g = m / AmpDen, g <= 1
GainAtMost(g, m) == g[1] * AmpDen <= m * g[2]
GainAtLeast(g, m) == g[1] * AmpDen >= m * g[2]
GainIs(g, m) == g[1] * AmpDen = m * g[2]
GainAtMostUnity(g) == g[1] <= g[2]

BlockGains == {blk.gain_l, blk.gain_r}
FadingOutInBlock == blk.ran /\ blk.fading_out /\ blk.fade_out > 0
FadeOutFrames == Min(blk.nframes, blk.fade_out)

\* C10 as stated: around a mute transition no output sample exceeds mute_amp
\* (times its input) before the fade-out finishes, and no output sample is
\* below mute_amp (times its input) while a fade-in is in progress.
C10_MuteBounds ==
  \A g \in BlockGains :
    /\ FadingOutInBlock =>
         \A i \in 1 .. Min(Len(g), FadeOutFrames) : GainAtMost(g[i], blk.amp)
    /\ (blk.ran /\ blk.fade_in > 0) =>
         \A i \in 1 .. Min(Len(g), blk.fade_in) : GainAtLeast(g[i], blk.amp)

\* C10 amended: with mute_amp <= 1, while a fade-out runs and no fade-in is
\* left over, every output sample is between mute_amp times its input and its
\* input, and once the fade-out has finished every sample is mute_amp times
\* its input, on both channels, whatever mute_amp is; while a fade-in runs and
\* no fade-out does, no output sample is below mute_amp times its input.
C10_MuteBoundsAmended ==
  \A g \in BlockGains :
    /\ (blk.ran /\ blk.fading_out /\ blk.fade_in = 0) =>
         /\ Len(g) = blk.nframes
         /\ \A i \in 1 .. Len(g) :
              IF i <= FadeOutFrames
                THEN blk.amp <= AmpDen =>
                       (GainAtLeast(g[i], blk.amp) /\ GainAtMostUnity(g[i]))
                ELSE GainIs(g[i], blk.amp)
    /\ (blk.ran /\ blk.fade_in > 0 /\ ~blk.fading_out /\ blk.amp <= AmpDen) =>
         \A i \in 1 .. Len(g) : GainAtLeast(g[i], blk.amp)

\* a fade-out to a mute level between 0 and 1 ends inside the block
C10_Witness ==
  /\ blk.ran
  /\ blk.fading_out
  /\ blk.fade_in = 0
  /\ blk.fade_out > 0
  /\ blk.fade_out < blk.nframes
  /\ blk.amp = 1
  /\ Len(blk.gain_l) = blk.nframes

\* the fader has audio ports and is not a prefader
AudioFader == has_audio_ports(f_kind.type) /\ ~f_kind.passthrough

\* the block in which a fader that had finished any earlier fade-in became
\* effectively muted
FirstMutedBlock ==
  blk.ran /\ ~blk.was /\ blk.effectively_muted /\ blk.fade_in = 0

\* g = 1 - j / total
GainIsRampToZero(g, j, total) == g[1] * total = (total - j) * g[2]

\* g = m / AmpDen + (1 - m / AmpDen) * (1 - j / total)
GainIsRampTo(g, j, total, m) ==
  g[1] * AmpDen * total = (m * total + (AmpDen - m) * (total - j)) * g[2]

\* C11 as stated: in the first block after a fader that was unmuted for
\* several blocks becomes muted, the output sample at index i, 0 <= i < N with
\* N = FADER_DEFAULT_FADE_FRAMES_SHORT, is (1 - i/N) times its input.
C11_FadeOutRamp ==
  (AudioFader /\ FirstMutedBlock) =>
    \A g \in BlockGains :
      /\ Len(g) = blk.nframes
      /\ \A i \in 1 .. Min(Len(g), FADER_DEFAULT_FADE_FRAMES_SHORT) :
           GainIsRampToZero(g[i], i - 1, FADER_DEFAULT_FADE_FRAMES_SHORT)

\* C11 amended: in the first block after an AudioChannel or SampleProcessor
\* fader (not a prefader) with no fade-in left over becomes muted, the output
\* sample at index i, 0 <= i < min(N, nframes), is
\* (mute_amp + (1 - mute_amp) * (1 - i/N)) times its input, on both channels;
\* the ramp reaches mute_amp, which is 0 only when the mute fader is at 0.
C11_FadeOutRampToMuteAmp ==
  (AudioFader /\ ArmsFades /\ FirstMutedBlock) =>
    \A g \in BlockGains :
      /\ Len(g) = blk.nframes
      /\ blk.armed = "fade_out"
      /\ \A i \in 1 .. Min(Len(g), FADER_DEFAULT_FADE_FRAMES_SHORT) :
           GainIsRampTo(g[i], i - 1, FADER_DEFAULT_FADE_FRAMES_SHORT, blk.amp)

\* a whole ramp to a mute level above 0 inside one block
C11_Witness ==
  /\ AudioFader
  /\ ArmsFades
  /\ FirstMutedBlock
  /\ blk.amp > 0
  /\ blk.nframes >= FADER_DEFAULT_FADE_FRAMES_SHORT
  /\ Len(blk.gain_l) = blk.nframes

WithinLimit(x) == 0 - 2 * x[2] <= x[1] /\ x[1] <= 2 * x[2]

\* the fader is the Master channel fader, the Monitor fader or the
\* SampleProcessor fader
LimitedFader ==
  \/ f_kind.type = "AudioChannel" /\ f_kind.is_master /\ ~f_kind.passthrough
  \/ f_kind.type = "Monitor"
  \/ f_kind.type = "SampleProcessor"

\* C13: after every block every output sample of the Master channel fader,
\* of the Monitor fader and of the SampleProcessor fader is within [-2, +2],
\* whatever the input, amp, pan, mono-compat and swap-phase settings.
C13_HardLimit ==
  (blk.ran /\ LimitedFader) =>
    /\ Len(blk.out_l) = blk.nframes
    /\ Len(blk.out_r) = blk.nframes
    /\ \A i \in 1 .. blk.nframes :
         WithinLimit(blk.out_l[i]) /\ WithinLimit(blk.out_r[i])

\* the limiter acted: an input of -MaxSample at amp above 1, mono off, came
\* out of an unmuted limited fader
C13_Witness ==
  /\ blk.ran
  /\ blk.fresh
  /\ LimitedFader
  /\ ~blk.effectively_muted
  /\ blk.fade_in = 0
  /\ f_sig.in_l = 0 - MaxSample
  /\ f_sig.amp > AmpDen
  /\ f_sig.pan = 1
  /\ ~f_sig.mono
  /\ ~f_sig.phase
  /\ blk.out_l[1] = << 0 - 2, 1 >>

RECURSIVE AncestorsOf(_)
AncestorsOf(t) ==
  IF tracks[t].output = NoTrack THEN {}
  ELSE {tracks[t].output} \cup AncestorsOf(tracks[t].output)

DescendantsOf(t) == {d \in Tracks : t \in AncestorsOf(d)}

SoloedOrImplied(t) == tracks[t].soloed \/ TrackImpliedSoloed(t)

\* C14 as stated: the channel fader of a track reports implied_soloed
\* whenever an ancestor output track or a descendant group child is soloed
\* or implied-soloed.
C14_ImpliedSoloed ==
  \A t \in Tracks :
    (\/ \E a \in AncestorsOf(t) : SoloedOrImplied(a)
     \/ \E d \in DescendantsOf(t) : SoloedOrImplied(d))
      => TrackImpliedSoloed(t)

\* C14 amended: the channel fader of a track reports implied_soloed exactly
\* when its own solo port is off and an ancestor output track is soloed or a
\* descendant group child is soloed; an un-soloed, un-muted track routed
\* into a soloed group track reports implied_soloed and is not effectively
\* muted.
C14_ImpliedSoloedExact ==
  \A t \in Tracks :
    /\ TrackImpliedSoloed(t) <=>
         /\ ~tracks[t].soloed
         /\ \/ \E a \in AncestorsOf(t) : tracks[a].soloed
            \/ \E d \in DescendantsOf(t) : tracks[d].soloed
    /\ get_implied_soloed(KindOf(t), FaderInputOf(t)) = TrackImpliedSoloed(t)
    /\ (/\ ~tracks[t].soloed
        /\ tracks[t].output # NoTrack
        /\ tracks[tracks[t].output].soloed)
         => /\ TrackImpliedSoloed(t)
            /\ ~EffectivelyMuted(KindOf(t), FaderInputOf(t))

\* track B routed through a group track into a soloed group track A, a
\* sibling that is muted by the solo
C14_Witness ==
  \E a, g, b, c \in Tracks :
    /\ tracks[b].output = g
    /\ tracks[g].output = a
    /\ tracks[a].soloed
    /\ ~tracks[g].soloed
    /\ ~tracks[b].soloed
    /\ TrackImpliedSoloed(b)
    /\ c \notin {a, g, b}
    /\ EffectivelyMuted(KindOf(c), FaderInputOf(c))

\* C15: a MIDI fader in CCVolume mode emits a volume CC event in every
\* block in which its amp value differs from the last volume it emitted.
C15_CCVolumeEmitted ==
  (/\ blk.ran
   /\ f_kind.type = "MidiChannel"
   /\ ~f_kind.passthrough
   /\ ~blk.effectively_muted
   /\ f_sig.midi_mode = "CCVolume"
   /\ f_sig.amp # last_cc_volume)
    => blk.cc_volume_emitted

(***************************************************************************)
(* Properties of the channel strip.  The strip order is: the MidiFx slots  *)
(* by index, the Instrument, the Insert slots by index.                    *)
(***************************************************************************)
StripSlots ==
  {PluginSlot("Instrument", 0)}
    \cup {PluginSlot(ty, i) : ty \in {"MidiFx", "Insert"}, i \in SlotIndexes}

SlotPos(slot) ==
  IF slot.type = "MidiFx" THEN slot.index
  ELSE IF slot.type = "Instrument" THEN STRIP_SIZE
  ELSE STRIP_SIZE + 1 + slot.index

SlotPlugin(slot) ==
  PluginAt(slot.type, slot.index, midi_fx, instrument, inserts)

Occupied == {slot \in StripSlots : SlotPlugin(slot) # NoPlugin}

\* the plugin of the nearest occupied slot before / after the slot in strip
\* order (NoPlugin: none)
StripPrev(slot) ==
  LET lower == {x \in Occupied : SlotPos(x) < SlotPos(slot)}
  IN  IF lower = {} THEN NoPlugin
      ELSE SlotPlugin(CHOOSE x \in lower :
                        \A y \in lower : SlotPos(y) <= SlotPos(x))

StripNext(slot) ==
  LET higher == {x \in Occupied : SlotPos(x) > SlotPos(slot)}
  IN  IF higher = {} THEN NoPlugin
      ELSE SlotPlugin(CHOOSE x \in higher :
                        \A y \in higher : SlotPos(x) <= SlotPos(y))

\* the node that feeds / is fed by the plugin of the slot
FeederOf(slot) ==
  IF StripPrev(slot) = NoPlugin THEN TrackProcessor ELSE StripPrev(slot)
FedBy(slot) ==
  IF StripNext(slot) = NoPlugin THEN Prefader ELSE StripNext(slot)

\* C16: after a plugin P is connected into the strip, P's input is fed by
\* its previous plugin, or by the TrackProcessor if it has none, P's output
\* feeds its next plugin, or the Prefader if it has none, and the direct
\* connection that joined P's two neighbours no longer exists.
C16_ConnectedBetweenNeighbours ==
  strip_op.op = "add" =>
    /\ << FeederOf(strip_op.slot), SlotPlugin(strip_op.slot) >> \in conns
    /\ << SlotPlugin(strip_op.slot), FedBy(strip_op.slot) >> \in conns
    /\ << FeederOf(strip_op.slot), FedBy(strip_op.slot) >> \notin conns

MidiFxPlugins == {midi_fx[i] : i \in SlotIndexes} \ {NoPlugin}

\* C17: the previous plugin that connect_plugins finds for a strip plugin
\* is the nearest occupied lower slot of the same slot-type array; for a
\* MidiFx plugin it is never outside the MidiFx slots; for an Insert with no
\* preceding insert it is the Instrument, or else the last MidiFx plugin; for
\* the Instrument it is the last MidiFx plugin.
C17_PreviousPlugin ==
  \A slot \in Occupied :
    LET prev == ConnectPrev(slot.type, slot.index, midi_fx, instrument, inserts)
        same == IF slot.type = "Insert" THEN inserts ELSE midi_fx
        below == IF slot.type = "Instrument" THEN SlotIndexes
                 ELSE {i \in SlotIndexes : i < slot.index /\ same[i] # NoPlugin}
    IN  /\ prev = StripPrev(slot)
        /\ slot.type = "MidiFx" => prev \in MidiFxPlugins \cup {NoPlugin}
        /\ (slot.type # "Instrument" /\ below # {}) =>
             \E i \in below : /\ prev = same[i]
                               /\ \A k \in below : k <= i
        /\ (slot.type = "Insert" /\ below = {}) =>
             prev = IF instrument # NoPlugin THEN instrument
                    ELSE StripPrev(PluginSlot("Instrument", 0))
        /\ slot.type = "Instrument" =>
             (IF MidiFxPlugins = {} THEN prev = NoPlugin
              ELSE prev \in MidiFxPlugins)

\* an Insert with no preceding insert behind an Instrument behind a MidiFx
\* plugin
C17_Witness ==
  /\ strip_op.op = "add"
  /\ instrument # NoPlugin
  /\ MidiFxPlugins # {}
  /\ \E i \in SlotIndexes :
       /\ inserts[i] # NoPlugin
       /\ \A k \in SlotIndexes : k < i => inserts[k] = NoPlugin
       /\ ConnectPrev("Insert", i, midi_fx, instrument, inserts) = instrument

\* C18: removing the plugin at a slot connects its previous neighbour (or
\* the TrackProcessor) directly to its next neighbour (or the Prefader), the
\* neighbours being the ones used when the plugin was connected, and leaves
\* the removed plugin out of the path.
C18_RemoveRewires ==
  strip_op.op = "remove" =>
    LET slot == strip_op.slot
        pl == SlotPlugin(slot)
    IN  /\ DisconnectPrev(slot, midi_fx, instrument, inserts)
             = ConnectPrev(slot.type, slot.index, midi_fx, instrument, inserts)
        /\ DisconnectNext(slot, midi_fx, instrument, inserts)
             = ConnectNext(slot.type, slot.index, midi_fx, instrument, inserts)
        /\ << FeederOf(slot), FedBy(slot) >> \in conns
        /\ << FeederOf(slot), pl >> \notin conns
        /\ << pl, FedBy(slot) >> \notin conns

\* number of connections of the pair (src, dst)
ConnectionCount(src, dst) ==
  BagCardinality(ConnectionsOf(port_conns, src, dst))

ValAtPointIsItsValue(i, k, ends_after) ==
  LET r == at_regions[i]
      val == get_val_at_pos(at_regions, at_port_val, r.pos + r.aps[k].pos,
                            ends_after)
  IN  val[1] = r.aps[k].normalized_val * val[2]

PointIsRead(i, k, ends_after) ==
  LET r == at_regions[i]
      pos == r.pos + r.aps[k].pos
  IN  /\ ~r.muted
      /\ pos < r.end_pos
      /\ get_region_before_pos(at_regions, pos, ends_after) = i
      /\ \A j \in (k + 1) .. Len(r.aps) : r.aps[j].pos # r.aps[k].pos

RatioPassed(pos, ends_after) ==
  LET k == get_ap_before_pos(at_regions, pos, ends_after)
  IN  IF k = 0 THEN << 0, 0 >>
      ELSE
        LET r == at_regions[get_region_before_pos(at_regions, pos,
                                                  ends_after)]
            next == get_next_ap(r, k)
        IN  IF next = 0 THEN << 0, 0 >>
            ELSE LET ratio == CurveRatio(r.aps[k], r.aps[next],
                                         ValLocalPos(r, pos, ends_after))
                 IN  IF ratio[1] < 0 THEN << 0, 0 >> ELSE ratio

\* C21: the interpolation ratio that get_val_at_pos passes to the curve
\* function lies in [0, 1], at every position and for every content of the
\* automation track.
C21_RatioInUnitInterval ==
  \A pos \in TimelinePositions, ends_after \in BOOLEAN :
    LET ratio == RatioPassed(pos, ends_after)
    IN  ratio[1] >= 0 /\ ratio[1] <= ratio[2]

\* the track was read strictly between two points of a region
C21_Witness ==
  /\ at_obs.op = "get_val_at_pos"
  /\ LET ratio == RatioPassed(at_obs.pos, at_obs.ends_after)
     IN  0 < ratio[1] /\ ratio[1] < ratio[2]

\* the last call of should_be_recording was made in Record mode with the
\* Touch record mode
TouchCall ==
  /\ rec_obs.op = "should_be_recording"
  /\ automation_mode_ = "Record"
  /\ record_mode_ = "Touch"

\* the port was touched less than the touch window before the call
TouchedWithinWindow ==
  rec_obs.cur_time - last_change_time_ < AUTOMATION_RECORDING_TOUCH_REL_MS

C23_RegionInvariants ==
  /\ region.end_pos > region.pos
  /\ region.loop_start_pos < region.loop_end_pos
  /\ region.clip_start_pos >= 0
  /\ region.clip_start_pos < region.loop_end_pos
  /\ can_fade(region) =>
       /\ region.fade_in_pos < region.fade_out_pos
       /\ region.fade_in_pos >= 0
       /\ region.fade_out_pos <= region.end_pos - region.pos

\* the local frame of the timeline frame tl of the region
LocalOf(tl) == timeline_frames_to_local(region, tl)

\* C24: for every timeline frame tl in [start, end) of the region,
\* timeline_frames_to_local (tl, normalize = true) lies in
\* [clip_start, loop_end).
C24_LocalInClipRange ==
  \A tl \in region.pos .. (region.end_pos - 1) :
    LocalOf(tl) >= region.clip_start_pos /\ LocalOf(tl) < region.loop_end_pos

\* C24, amended: for every timeline frame tl in [start, end) of the region,
\* timeline_frames_to_local (tl, normalize = true) is
\* tl - start + clip_start when that is before loop_end, and otherwise
\* lies in [loop_start, loop_end); in both cases in [0, loop_end).
C24_LocalInLoopRange ==
  \A tl \in region.pos .. (region.end_pos - 1) :
    LET unwrapped == tl - region.pos + region.clip_start_pos
    IN  /\ LocalOf(tl) >= 0 /\ LocalOf(tl) < region.loop_end_pos
        /\ IF unwrapped < region.loop_end_pos THEN LocalOf(tl) = unwrapped
           ELSE LocalOf(tl) >= region.loop_start_pos

\* a frame of a region whose clip starts after the loop start was mapped
\* to a local frame before the clip start
C24_Witness ==
  /\ region_obs.op = "timeline_frames_to_local"
  /\ region.loop_start_pos < region.clip_start_pos
  /\ region.clip_start_pos < region.loop_end_pos
  /\ region_obs.result = LocalOf(region_obs.timeline_frames)
  /\ region_obs.result < region.clip_start_pos

\* the events of the last fill_midi_events call of the given type at the
\* last frame of the block
RECURSIVE EventsAtEnd(_, _)
EventsAtEnd(evs, type) ==
  IF evs = << >> THEN << >>
  ELSE (IF Head(evs).type = type /\ Head(evs).time = midi_obs.nframes - 1
          THEN << Head(evs) >> ELSE << >>)
       \o EventsAtEnd(Tail(evs), type)

\* the note offs at the last frame that are not the regular note offs of
\* notes that end there
BorderNoteOffs ==
  Len(EventsAtEnd(midi_obs.events, "note_off"))
    - Len(EventsAtEnd(BlockEvents(midi_notes_, midi_obs.local_start,
                                  midi_obs.nframes), "note_off"))

AllNotesOffs == Len(EventsAtEnd(midi_obs.events, "all_notes_off"))

SoundingAtBorder ==
  Len(NotesAtBorder(midi_notes_, midi_obs.local_start + midi_obs.nframes))

\* C25: when fill_midi_events is asked to add a note off at the end of the
\* block, it emits a single all notes off if the boundary is a loop wrap,
\* and one note off per sounding note if the boundary is the region end.
C25_NoteOffsAtEnd ==
  midi_obs.op = "fill_midi_events" =>
    /\ midi_obs.boundary \in {"region_loop_end", "transport_loop_end"} =>
         AllNotesOffs = 1 /\ BorderNoteOffs = 0
    /\ midi_obs.boundary = "region_end" =>
         AllNotesOffs = 0 /\ BorderNoteOffs = SoundingAtBorder

\* C25, amended: when fill_midi_events is asked to add a note off at the
\* end of the block, it emits one note off per note sounding at the border
\* and no all notes off if the boundary is a loop end of the region or the
\* end of the region, and a single all notes off and no further note off
\* if it is another boundary, such as a loop of the transport; when it is
\* not asked, it emits neither.
C25_NoteOffsAtRegionBoundary ==
  midi_obs.op = "fill_midi_events" =>
    /\ midi_obs.boundary \in {"region_loop_end", "region_end"} =>
         AllNotesOffs = 0 /\ BorderNoteOffs = SoundingAtBorder
    /\ midi_obs.boundary = "transport_loop_end" =>
         AllNotesOffs = 1 /\ BorderNoteOffs = 0
    /\ midi_obs.boundary = "none" =>
         AllNotesOffs = 0 /\ BorderNoteOffs = 0

\* a block ending at a loop end of the region was filled while two notes
\* sounded, and got two note offs
C25_Witness ==
  /\ midi_obs.op = "fill_midi_events"
  /\ midi_obs.boundary = "region_loop_end"
  /\ SoundingAtBorder = 2
  /\ BorderNoteOffs = 2

NotRepeated == {i \in 1 .. Len(drained_batch) : i = 1 \/ drained_batch[i] # drained_batch[i - 1]}

\* C27: a run of the event pump discards an event exactly when it is
\* identical to the event right before it in the queue, and handles every
\* other event, in the order in which the events were pushed.
C27_DiscardsRepeatsKeepsOrder ==
  PumpRunDone =>
    /\ Len(handled) = Cardinality(NotRepeated)
    /\ \A i \in NotRepeated :
         handled[Cardinality({j \in NotRepeated : j <= i})] = drained_batch[i]

\* C28: in every project create / load flow the run flag of the engine is
\* true only after pre_setup, setup and the recalculation of the routing
\* graph have completed, and no cycle passes process_prepare and traverses
\* the graph before that.
C28_RunOnlyAfterSetup ==
  (run \/ audio_pc = "loop") =>
    /\ pre_setup_
    /\ setup_
    /\ graph_recalculated
    /\ ctrl_pc = "idle"

\* a flow has ended and a cycle traverses the graph
C28_Witness ==
  /\ flow_steps = << >>
  /\ run
  /\ audio_pc = "loop"
  /\ nodes_processed > 0
  /\ graph_recalculated

StripRank(n) ==
  IF n = TrackProcessor THEN 0
  ELSE IF n = Prefader THEN 2 + 2 * STRIP_SIZE
  ELSE IF n = instrument THEN 1 + STRIP_SIZE
  ELSE IF \E i \in SlotIndexes : midi_fx[i] = n
    THEN 1 + (CHOOSE i \in SlotIndexes : midi_fx[i] = n)
  ELSE 2 + STRIP_SIZE + (CHOOSE i \in SlotIndexes : inserts[i] = n)

StripMembers ==
  ({TrackProcessor, Prefader, instrument}
     \cup {midi_fx[i] : i \in SlotIndexes} \cup {inserts[i] : i \in SlotIndexes})
    \ {NoPlugin}

\* every member of the strip connected to the member that follows it
StripChain ==
  {e \in StripMembers \X StripMembers :
     /\ StripRank(e[1]) < StripRank(e[2])
     /\ ~\E m \in StripMembers :
           /\ StripRank(e[1]) < StripRank(m)
           /\ StripRank(m) < StripRank(e[2])}

\* C30: after any sequence of add_plugin and remove_plugin calls the
\* connections of the strip are those of one linear chain: TrackProcessor,
\* the occupied MidiFx slots in index order, the Instrument, the occupied
\* Insert slots in index order, Prefader; so the Instrument feeds the first
\* occupied Insert, or the Prefader when there is none.
C30_LinearChain == conns = StripChain

\* C31: adding a plugin to an empty slot and then removing it restores
\* exactly the connections of the strip that existed before the add,
\* whatever the slot type and whatever the other slots hold.
C31_AddRemoveRestores ==
  (strip_op.op = "remove" /\ strip_op.undoes_add) =>
    conns = strip_op.before_add

\* C39: after remove_plugin(slot) has returned the slot is empty:
\* get_plugin_at_slot(slot) finds no plugin and get_plugins does not list
\* the plugin that was removed.
C39_SlotEmptyAfterRemove ==
  strip_op.op = "remove" =>
    /\ get_plugin_at_slot(strip_op.slot) = NoPlugin
    /\ \A i \in 1 .. Len(get_plugins) : get_plugins[i] # strip_op.plugin

\* C32: at most one fade is in progress in a fader: no block has both the
\* fade-in (fade_in_samples > 0) and the fade-out (fading_out with
\* fade_out_samples > 0) applied to it, and after a block at most one of the
\* two is left to run.
C32_OneFadeAtATime ==
  /\ blk.ran => ~(blk.fade_in > 0 /\ blk.fading_out /\ blk.fade_out > 0)
  /\ ~(fade_in_samples > 0 /\ fading_out /\ fade_out_samples > 0)

FadeCountersInRange ==
  /\ fade_in_samples \in 0 .. fade_frames_for_type(f_kind.type)
  /\ fade_out_samples \in 0 .. fade_frames_for_type(f_kind.type)

\* a counter rises only in a block that arms its fade
FadeCountersRiseWhenArmed ==
  /\ fade_in_samples' > fade_in_samples => (blk'.ran /\ blk'.armed = "fade_in")
  /\ fade_out_samples' > fade_out_samples => (blk'.ran /\ blk'.armed = "fade_out")

\* C33 as stated: both counters stay within [0, fade_frames_for_type(type)],
\* rise only in a block that arms their fade, and run down in every block
\* of one frame or more that finds them above 0, so that they reach 0 after
\* finitely many blocks.
C33_CountersRunDown ==
  /\ [] FadeCountersInRange
  /\ [][FadeCountersRiseWhenArmed]_vars
  /\ []((blk.ran /\ blk.fade_in > 0) => fade_in_samples < blk.fade_in)
  /\ []((blk.ran /\ blk.fade_out > 0) => fade_out_samples < blk.fade_out)

\* C33, amended: the counter of the fade-out runs down in the blocks in which
\* the fader is fading out (fading_out set); a fade-out cut short by an
\* unmute leaves its counter where it is until the next fade-out is armed.
C33_CountersRunDownWhileFading ==
  /\ [] FadeCountersInRange
  /\ [][FadeCountersRiseWhenArmed]_vars
  /\ []((blk.ran /\ blk.fade_in > 0) => fade_in_samples < blk.fade_in)
  /\ []((blk.ran /\ blk.fading_out /\ blk.fade_out > 0) =>
          fade_out_samples < blk.fade_out)
  /\ []((blk.ran /\ ~blk.fading_out) => fade_out_samples = blk.fade_out)

\* an unmute has cut a fade-out short: the fade-in runs down, the counter of
\* the fade-out stays
C33_Witness ==
  /\ blk.ran
  /\ blk.armed = "fade_in"
  /\ fade_in_samples > 0
  /\ fade_in_samples < blk.fade_in
  /\ ~fading_out
  /\ fade_out_samples > 0

(***************************************************************************)
(* C34: every Event taken from ev_pool_ by a push is returned to the pool  *)
(* once the pump has handled or discarded it: whenever the pump is not     *)
(* running, the number of pool objects in use is the number of events      *)
(* still queued, and it never exceeds the ENGINE_MAX_EVENTS objects of the *)
(* pool.                                                                   *)
(***************************************************************************)
C34_PoolObjectsReturned ==
  /\ pump_pc = "idle" => pool_in_use = Len(ev_queue)
  /\ pool_in_use <= ENGINE_MAX_EVENTS

(***************************************************************************)
(* C35: set_position (pos, pos_type, validate = true) with a position that *)
(* is_position_valid rejects returns false and leaves every position of    *)
(* the object (start, end, clip start, loop start, loop end, fade in, fade *)
(* out) as it was.                                                         *)
(***************************************************************************)
RejectedSetPosition ==
  /\ region_obs.op = "set_position"
  /\ ~is_position_valid(region_obs.before, region_obs.pos, region_obs.pos_type)

C35_RejectedPositionChangesNothing ==
  RejectedSetPosition => /\ region_obs.result = FALSE
                         /\ region = region_obs.before

\* a loop end before the loop start of an audio region was rejected
C35_Witness ==
  /\ RejectedSetPosition
  /\ region_obs.pos_type = "LoopEnd"
  /\ region_obs.before.type = "Audio"
  /\ region_obs.before.loop_start_pos > 0
  /\ region_obs.pos < region_obs.before.loop_start_pos
  /\ region_obs.result = FALSE
  /\ region = region_obs.before

(***************************************************************************)
(* C36: after any sequence of automation-mode changes the tracklist's      *)
(* ats_in_record_mode_ holds an automation track exactly when the mode of  *)
(* the track is Record, and holds it at most once.                         *)
(***************************************************************************)
C36_RecordModeCacheExact ==
  /\ \A at \in AutomationTracks :
       InRecordModeCache(at) <=> ats_automation_mode_[at] = "Record"
  /\ \A i, j \in 1 .. Len(ats_in_record_mode_) :
       ats_in_record_mode_[i] = ats_in_record_mode_[j] => i = j

(***************************************************************************)
(* C40: after add_current_note (n), contains_current_note (n) is true, and *)
(* current_notes_ never holds the same note twice.                         *)
(***************************************************************************)
C40_AddedNoteIsCurrent ==
  /\ piano_roll_obs.op = "add_current_note" =>
       contains_current_note(current_notes_, piano_roll_obs.note)
  /\ \A i, j \in 1 .. Len(current_notes_) :
       current_notes_[i] = current_notes_[j] => i = j

(***************************************************************************)
(* C38: every flow started by constructing a ProjectInitFlowManager ends   *)
(* by invoking the caller's callback exactly once, with success or with    *)
(* failure, and the appended callbacks are invoked last-appended-first:    *)
(* the callbacks still held followed by the callbacks invoked, latest      *)
(* first, are the callbacks in the order they were appended.               *)
(***************************************************************************)
InvokedLatestFirst ==
  [i \in 1 .. Len(cb_calls) |-> cb_calls[Len(cb_calls) + 1 - i].cb]

C38_CallerCallbackInvokedOnce ==
  /\ callbacks_ \o InvokedLatestFirst = appended_callbacks
  /\ (init_in.constructed /\ init_todo = << >>) =>
       Cardinality({i \in 1 .. Len(cb_calls) : cb_calls[i].cb = "cb"}) = 1

=============================================================================
